---------------------------- MODULE Spec2Model ----------------------------
(***************************************************************************)
(* aeronav: the fork/pipe job queue (jobqueue.c), the tile manifest        *)
(* (manifest.c) and the two-phase tile generator (tiling.c).               *)
(*                                                                         *)
(* Spec / LiveSpec   jobqueue_run: one parent, num_workers worker          *)
(*                   processes, one pipe pair per worker.                  *)
(* ManifestSpec      build_tile_manifest as a function of the tileset.     *)
(* TileSpec          generate_tileset_tiles_parallel for one tileset.      *)
(***************************************************************************)
EXTENDS Integers, Sequences, FiniteSets, TLC

(***************************************************************************)
(* Bounds of the model.                                                    *)
(***************************************************************************)
MaxJobs == 2
MaxWorkers == 2
MaxZoom == 2
MaxDatasets == 2
MaxRecursion == 3
MaxTileWorkers == 2
MaxTileFailures == 1
MaxTilesets == 2
MaxVrtDatasets == 3
MaxRingVertices == 2

(***************************************************************************)
(* Program constants.                                                      *)
(***************************************************************************)
JQ_MAX_WORKERS == 64
MAX_JOBS == 64
PackShift == 16
PackedTileBits == 32

WorkerIds == 0 .. (MaxWorkers - 1)
JobIds == 0 .. (MaxJobs - 1)

VARIABLES
    \* ---- jobqueue_run: configuration and platform
    num_jobs,        \* config->num_jobs
    max_workers,     \* config->max_workers
    eof_pollin,      \* platform: poll() reports POLLIN (with POLLHUP) at end of file
    \* ---- jobqueue_run: the parent's locals
    pc,              \* position of the parent in jobqueue_run
    idx,             \* the loop variable i of the current for loop
    num_workers,
    started_workers,
    workers,         \* WorkerState[]: pid, current_job, active
    next_job,
    jobs_completed,
    jobs_succeeded,
    jobs_failed,
    revents,         \* fds[i].revents after the last poll()
    ret,
    result,          \* JobQueueResult
    \* ---- the operating system: processes and pipes
    proc,            \* worker process: "none", "init", "idle", "busy", "exited"
    wjob,            \* the job index a busy worker is executing
    to_pipe,         \* bytes in flight parent -> worker (JobMessage.job_index)
    from_pipe,       \* bytes in flight worker -> parent (StatusMessage.status)
    parent_fds,      \* the parent still holds to_worker[1] / from_worker[0]
    reaped,          \* waitpid() has returned for the worker
    \* ---- history of the run
    sent,            \* job index -> number of successful send_job calls
    sent_after_crash, \* jobs sent when some worker had already died
    executed,        \* job index -> number of job_func calls
    returned_ok,     \* number of job_func calls that returned 0
    returned_fail,   \* number of job_func calls that returned non-zero
    lost,            \* jobs outstanding on a worker when the parent declared it dead
    crashed,         \* worker died on its own (not by shutdown)
    poll_failed,
    loop_ran,        \* the call got as far as the dispatch loop
    \* ---- build_tile_manifest
    tileset,         \* Tileset: zoom_min, zoom_max, datasets (with their TIFs)
    m_pc,            \* "start", "built"
    manifest,        \* TileManifest
    raw_zooms,       \* history: the levels before finalize_zoom
    \* ---- add_tiles_for_bounds, one outermost call
    b_args,          \* the arguments of the outermost call
    b_stack,         \* the calls in progress, the innermost last
    b_pc,            \* "idle", "run", "returned", "unbounded"
    b_calls,         \* history: the longitude ranges recursed into
    b_tiles,         \* the tiles appended to the ZoomTileSet
    \* ---- generate_tileset_tiles_parallel, one tileset
    num_tile_workers, \* the argument num_workers
    vrt,             \* <tmppath>/__<name>.vrt: built or not, its sources
    t_pc,            \* position of the parent
    t_w,             \* the loop variable w of the fork and wait loops
    t_z,             \* the loop variable z of Phase 2
    t_ret,           \* the return value
    tile_list,       \* the TileCoord list of get_base_tile_list
    actual_workers,
    next_tile,       \* the shared atomic counter
    tw,              \* tile worker: pc and the tile index i it claimed
    signalled,       \* SIGTERM was sent to the worker
    waited,          \* waitpid() has returned for the worker
    disk,            \* the tile files: tile -> kind and sources
    \* ---- history of the tile run
    writes,          \* tile -> number of times its file was written
    claimed,         \* tile index -> number of workers that claimed it
    io_failures,     \* GDAL failures so far
    skipped_existing, \* (tile, step) pairs skipped because the file existed
    parents,         \* the parent tiles of the zoom Phase 2 is working on
    ov_started,      \* history: the zooms whose overview generation has started
    ov_finished,     \* history: the zooms whose overview generation has returned
    ov_counts,       \* the counters generated and existing of generate_overview_tiles_for_zoom
    ov_calls,        \* history: the calls of generate_overview_tile for this zoom, and those that failed
    first_run,       \* history: the files and writes of a first run, and the files deleted after it
    \* ---- process_dataset, one dataset
    p_cfg,           \* the dataset: palette, mask, gcps, geobound present or not
    p_pc,            \* position in process_dataset
    p_src,           \* the local src: the handle the next stage is given
    p_handles,       \* raster handles: the live ones, and how often each was closed
    p_ret,           \* the return value
    \* ---- history of process_dataset
    p_log,           \* the stages that were called, in order
    p_failed,        \* the step that failed, or "none"
    p_saved,         \* save_with_overviews returned 0
    p_stale_use,     \* a handle was passed on after it was closed
    \* ---- process_datasets_parallel
    d_tilesets,      \* the selected tilesets: their lists of dataset names
    d_pc,            \* position in process_datasets_parallel
    d_jobs,          \* the DatasetJob array handed to jobqueue_run
    d_state,         \* job index -> "queued", "running", "finished"
    d_writers,       \* temp file -> the jobs that have written to it
    \* ---- build_zoom_vrt
    z_tileset,       \* the tileset's list of dataset names
    z_exists,        \* the dataset names whose reprojected file exists
    z_zoom,          \* the argument zoom
    z_pc,            \* "start", "done"
    z_ret,           \* the return value
    z_files,         \* the file list given to GDALBuildVRT
    z_gdal_failed,   \* history: GDALBuildVRT failed
    \* ---- expand_to_rgb and apply_mask in process_dataset
    k_src,           \* the opened source: size, colour table, geotransform
    k_ring,          \* the outer ring of the dataset's mask: its vertices
    k_pc,            \* position in process_dataset
    k_cur,           \* the raster the local src stands for
    k_win,           \* win_offset_x, win_offset_y
    k_off,           \* cumulative_offset_x, cumulative_offset_y
    k_ret,           \* the return value
    k_saved,         \* the reprojected GeoTIFF was saved
    \* ---- the fork loop of generate_tileset_tiles_parallel and its pids[]
    f_req,           \* the argument num_workers
    f_total,         \* total_tiles
    f_pc,            \* "idle", "limit", "fork", "wait", "crashed"
    f_actual,        \* actual_workers
    f_w,             \* the loop variable w: the workers forked so far
    f_pids,          \* the elements of pids[] that hold a pid
    f_past           \* history: the indices written past the end of pids[]

jqvars == << num_jobs, max_workers, eof_pollin, pc, idx, num_workers,
             started_workers, workers, next_job, jobs_completed,
             jobs_succeeded, jobs_failed, revents, ret, result, proc, wjob,
             to_pipe, from_pipe, parent_fds, reaped, sent, executed,
             returned_ok, returned_fail, lost, crashed, poll_failed, loop_ran,
             sent_after_crash >>

bvars == << b_args, b_stack, b_pc, b_calls, b_tiles >>

mvars == << tileset, m_pc, manifest, raw_zooms, bvars >>

tvars == << num_tile_workers, vrt, t_pc, t_w, t_z, t_ret, tile_list,
            actual_workers, next_tile, tw, signalled, waited, disk, writes,
            claimed, io_failures, skipped_existing, parents, ov_started,
            ov_finished, first_run, ov_counts, ov_calls >>

pvars == << p_cfg, p_pc, p_src, p_handles, p_ret, p_log, p_failed, p_saved,
           p_stale_use >>

dvars == << d_tilesets, d_pc, d_jobs, d_state, d_writers >>

zvars == << z_tileset, z_exists, z_zoom, z_pc, z_ret, z_files, z_gdal_failed >>

kvars == << k_src, k_ring, k_pc, k_cur, k_win, k_off, k_ret, k_saved >>

\* the variables of processing.c and of build_zoom_vrt
fvars == << f_req, f_total, f_pc, f_actual, f_w, f_pids, f_past >>

procvars == << pvars, dvars, zvars, kvars, fvars >>

\* the variables jobqueue_run does not touch
not_jqvars == << mvars, tvars, procvars >>

vars == << jqvars, mvars, tvars, procvars >>

(***************************************************************************)
(* jobqueue.c                                                              *)
(***************************************************************************)

\* WorkerState after the initialisation loop (jobqueue.c:149-153)
WorkerStateInit == [pid |-> -1, current_job |-> -1, active |-> FALSE]

\* lines 129-139, without the limit of num_jobs
RequestedWorkers(maxw, njobs) == IF maxw < 1 THEN 1 ELSE maxw

\* lines 129-139: the number of workers actually used
ActualWorkers(maxw, njobs) ==
    LET a == IF maxw > njobs THEN njobs ELSE maxw
        b == IF a > JQ_MAX_WORKERS THEN JQ_MAX_WORKERS ELSE a
    IN  IF b < 1 THEN 1 ELSE b

JQInit ==
    /\ num_jobs \in 0 .. MaxJobs
    /\ max_workers \in 0 .. MaxWorkers
    /\ eof_pollin \in BOOLEAN
    /\ pc = "start"
    /\ idx = 0
    /\ num_workers = 0
    /\ started_workers = 0
    /\ workers = [w \in WorkerIds |-> WorkerStateInit]
    /\ next_job = 0
    /\ jobs_completed = 0
    /\ jobs_succeeded = 0
    /\ jobs_failed = 0
    /\ revents = [w \in WorkerIds |-> {}]
    /\ ret = -1
    /\ result = [completed |-> -1, failed |-> -1]
    /\ proc = [w \in WorkerIds |-> "none"]
    /\ wjob = [w \in WorkerIds |-> -1]
    /\ to_pipe = [w \in WorkerIds |-> << >>]
    /\ from_pipe = [w \in WorkerIds |-> << >>]
    /\ parent_fds = [w \in WorkerIds |-> FALSE]
    /\ reaped = [w \in WorkerIds |-> FALSE]
    /\ sent = [j \in JobIds |-> 0]
    /\ sent_after_crash = {}
    /\ executed = [j \in JobIds |-> 0]
    /\ returned_ok = 0
    /\ returned_fail = 0
    /\ lost = {}
    /\ crashed = [w \in WorkerIds |-> FALSE]
    /\ poll_failed = FALSE
    /\ loop_ran = FALSE

ActiveCount == Cardinality({w \in 0 .. (num_workers - 1) : workers[w].active})

\* lines 238-241: the dispatch loop gives up when no worker is active
AnyWorkerInactive == ActiveCount < num_workers
NoActiveWorkers == ActiveCount = 0

\* lines 224 and 277: next_job++ after a successful send_job
next_job_unchanged(n) == n
next_job_after_send(n) == n + 1

\* lines 307 and 319: the workers the cleanup block shuts down and waits for
worker_is_active(w) == workers[w].active
worker_was_forked(w) == workers[w].pid > 0

\* history: job j is sent while some worker has already died
AfterCrash(j) ==
    IF \E v \in WorkerIds : crashed[v]
    THEN sent_after_crash \cup {j}
    ELSE sent_after_crash

\* send_job's write(): it succeeds while the worker holds the read end
WriteToWorkerOk(w) == proc[w] # "exited"

\* lines 112-156: argument check, the no-jobs return, the worker count
Start ==
    /\ pc = "start"
    /\ IF num_jobs = 0
       THEN /\ pc' = "done"
            /\ ret' = 0
            /\ result' = [completed |-> 0, failed |-> 0]
            /\ UNCHANGED num_workers
       ELSE /\ pc' = "fork"
            /\ num_workers' = ActualWorkers(max_workers, num_jobs)
            /\ result' = [completed |-> 0, failed |-> 0]
            /\ UNCHANGED ret
    /\ UNCHANGED << num_jobs, max_workers, eof_pollin, idx, started_workers,
                    workers, next_job, jobs_completed, jobs_succeeded,
                    jobs_failed, revents, proc, wjob, to_pipe, from_pipe,
                    parent_fds, reaped, sent, executed, returned_ok, returned_fail, lost,
                    crashed, poll_failed, loop_ran >>
    /\ UNCHANGED sent_after_crash
    /\ UNCHANGED not_jqvars

\* lines 159-198, one iteration: pipes and fork succeed
ForkWorker ==
    /\ pc = "fork"
    /\ idx < num_workers
    /\ workers' = [workers EXCEPT ![idx].pid = idx + 1, ![idx].active = TRUE]
    /\ proc' = [proc EXCEPT ![idx] = "init"]
    /\ parent_fds' = [parent_fds EXCEPT ![idx] = TRUE]
    /\ started_workers' = started_workers + 1
    /\ idx' = idx + 1
    /\ UNCHANGED << num_jobs, max_workers, eof_pollin, pc, num_workers,
                    next_job, jobs_completed, jobs_succeeded, jobs_failed,
                    revents, ret, result, wjob, to_pipe, from_pipe, reaped,
                    sent, executed, returned_ok, returned_fail, lost, crashed, poll_failed,
                    loop_ran >>
    /\ UNCHANGED sent_after_crash
    /\ UNCHANGED not_jqvars

\* lines 161-174: pipe() or fork() fails for worker idx: goto cleanup
ForkFail ==
    /\ pc = "fork"
    /\ idx < num_workers
    /\ pc' = "shutdown"
    /\ idx' = 0
    /\ UNCHANGED << num_jobs, max_workers, eof_pollin, num_workers,
                    started_workers, workers, next_job, jobs_completed,
                    jobs_succeeded, jobs_failed, revents, ret, result, proc,
                    wjob, to_pipe, from_pipe, parent_fds, reaped, sent,
                    executed, returned_ok, returned_fail, lost, crashed, poll_failed,
                    loop_ran >>
    /\ UNCHANGED sent_after_crash
    /\ UNCHANGED not_jqvars

\* lines 200-216: malloc of the pollfd array succeeds
AllocFds ==
    /\ pc = "fork"
    /\ idx = num_workers
    /\ pc' = "initial"
    /\ idx' = 0
    /\ UNCHANGED << num_jobs, max_workers, eof_pollin, num_workers,
                    started_workers, workers, next_job, jobs_completed,
                    jobs_succeeded, jobs_failed, revents, ret, result, proc,
                    wjob, to_pipe, from_pipe, parent_fds, reaped, sent,
                    executed, returned_ok, returned_fail, lost, crashed, poll_failed,
                    loop_ran >>
    /\ UNCHANGED sent_after_crash
    /\ UNCHANGED not_jqvars

\* lines 207-211: malloc of the pollfd array fails: goto cleanup
AllocFdsFail ==
    /\ pc = "fork"
    /\ idx = num_workers
    /\ pc' = "shutdown"
    /\ idx' = 0
    /\ UNCHANGED << num_jobs, max_workers, eof_pollin, num_workers,
                    started_workers, workers, next_job, jobs_completed,
                    jobs_succeeded, jobs_failed, revents, ret, result, proc,
                    wjob, to_pipe, from_pipe, parent_fds, reaped, sent,
                    executed, returned_ok, returned_fail, lost, crashed, poll_failed,
                    loop_ran >>
    /\ UNCHANGED sent_after_crash
    /\ UNCHANGED not_jqvars

\* lines 218-226, one iteration of the initial distribution (send_job, 91-98)
InitialSend ==
    /\ pc = "initial"
    /\ IF idx < num_workers /\ next_job < num_jobs
       THEN /\ IF WriteToWorkerOk(idx)
               THEN /\ to_pipe' = [to_pipe EXCEPT ![idx] = Append(@, next_job)]
                    /\ workers' = [workers EXCEPT ![idx].current_job = next_job]
                    /\ sent' = [sent EXCEPT ![next_job] = @ + 1]
                    /\ sent_after_crash' = AfterCrash(next_job)
                    /\ next_job' = next_job_after_send(next_job)
               ELSE /\ workers' = [workers EXCEPT ![idx].active = FALSE]
                    /\ UNCHANGED << to_pipe, sent, sent_after_crash, next_job >>
            /\ idx' = idx + 1
            /\ UNCHANGED << pc, loop_ran >>
       ELSE /\ pc' = "top"
            /\ loop_ran' = TRUE
            /\ UNCHANGED << idx, to_pipe, workers, sent, sent_after_crash,
                            next_job >>
    /\ UNCHANGED << num_jobs, max_workers, eof_pollin, num_workers,
                    started_workers, jobs_completed, jobs_succeeded,
                    jobs_failed, revents, ret, result, proc, wjob, from_pipe,
                    parent_fds, reaped, executed, returned_ok, returned_fail, lost, crashed,
                    poll_failed >>
    /\ UNCHANGED not_jqvars

\* lines 293-301: what the function does when the dispatch loop is left
LeaveLoop ==
    /\ pc' = "shutdown"
    /\ idx' = 0
    /\ ret' = IF jobs_failed = 0 THEN 0 ELSE -1
    /\ result' = [completed |-> jobs_succeeded, failed |-> jobs_failed]

\* lines 229-241: loop condition and the all-workers-died break
LoopTop ==
    /\ pc = "top"
    /\ IF jobs_completed >= num_jobs \/ NoActiveWorkers
       THEN LeaveLoop
       ELSE /\ pc' = "poll"
            /\ UNCHANGED << idx, ret, result >>
    /\ UNCHANGED << num_jobs, max_workers, eof_pollin, num_workers,
                    started_workers, workers, next_job, jobs_completed,
                    jobs_succeeded, jobs_failed, revents, proc, wjob, to_pipe,
                    from_pipe, parent_fds, reaped, sent, executed, returned_ok,
                    returned_fail, lost, crashed, poll_failed, loop_ran >>
    /\ UNCHANGED sent_after_crash
    /\ UNCHANGED not_jqvars

\* what poll() reports for the read end of from_worker
PollEvents(w) ==
    IF from_pipe[w] # << >>
    THEN IF proc[w] = "exited" THEN {"POLLIN", "POLLHUP"} ELSE {"POLLIN"}
    ELSE IF proc[w] = "exited"
         THEN IF eof_pollin THEN {"POLLIN", "POLLHUP"} ELSE {"POLLHUP"}
         ELSE {}

\* lines 243-244: poll() with no timeout returns once some descriptor is ready
Poll ==
    /\ pc = "poll"
    /\ \E w \in 0 .. (num_workers - 1) : PollEvents(w) # {}
    /\ revents' = [w \in WorkerIds |->
                     IF w < num_workers THEN PollEvents(w) ELSE {}]
    /\ pc' = "scan"
    /\ idx' = 0
    /\ UNCHANGED << num_jobs, max_workers, eof_pollin, num_workers,
                    started_workers, workers, next_job, jobs_completed,
                    jobs_succeeded, jobs_failed, ret, result, proc, wjob,
                    to_pipe, from_pipe, parent_fds, reaped, sent, executed,
                    returned_ok, returned_fail, lost, crashed, poll_failed, loop_ran >>
    /\ UNCHANGED sent_after_crash
    /\ UNCHANGED not_jqvars

\* lines 245-249: poll() fails with an error other than EINTR: break
PollFail ==
    /\ pc = "poll"
    /\ poll_failed' = TRUE
    /\ LeaveLoop
    /\ UNCHANGED << num_jobs, max_workers, eof_pollin, num_workers,
                    started_workers, workers, next_job, jobs_completed,
                    jobs_succeeded, jobs_failed, revents, proc, wjob, to_pipe,
                    from_pipe, parent_fds, reaped, sent, executed, returned_ok,
                    returned_fail, lost, crashed, loop_ran >>
    /\ UNCHANGED sent_after_crash
    /\ UNCHANGED not_jqvars

\* lines 252-290, one iteration of the scan over the workers
\* (receive_status, 103-110; send_job, 91-98)
ScanWorker ==
    /\ pc = "scan"
    /\ IF idx < num_workers
       THEN LET cur == workers[idx].current_job
                pollin == "POLLIN" \in revents[idx]
                pollhup == "POLLHUP" \in revents[idx]
                \* read() returned a whole StatusMessage
                got == pollin /\ from_pipe[idx] # << >>
                \* receive_status failed: the worker is dropped, "continue"
                readfail == pollin /\ from_pipe[idx] = << >>
                status == IF got THEN Head(from_pipe[idx]) ELSE -1
                more == got /\ next_job < num_jobs
                sendok == more /\ WriteToWorkerOk(idx)
                sendfail == more /\ ~WriteToWorkerOk(idx)
                \* current_job as the POLLHUP test of line 284 sees it
                cur2 == IF sendok THEN next_job ELSE IF got THEN -1 ELSE cur
                hupcount == pollhup /\ ~readfail /\ cur2 >= 0
                hup == pollhup /\ ~readfail
            IN  IF ~workers[idx].active
                THEN UNCHANGED << workers, from_pipe, to_pipe, next_job,
                                  jobs_completed, jobs_succeeded, jobs_failed,
                                  sent, sent_after_crash, lost >>
                ELSE /\ from_pipe' = IF got
                                     THEN [from_pipe EXCEPT ![idx] = Tail(@)]
                                     ELSE from_pipe
                     /\ to_pipe' = IF sendok
                                   THEN [to_pipe EXCEPT ![idx] = Append(@, next_job)]
                                   ELSE to_pipe
                     /\ sent' = IF sendok
                                THEN [sent EXCEPT ![next_job] = @ + 1]
                                ELSE sent
                     /\ sent_after_crash' = IF sendok
                                            THEN AfterCrash(next_job)
                                            ELSE sent_after_crash
                     /\ next_job' = IF sendok
                                    THEN next_job_after_send(next_job)
                                    ELSE next_job
                     /\ jobs_completed' = jobs_completed
                                          + (IF got THEN 1 ELSE 0)
                                          + (IF hupcount THEN 1 ELSE 0)
                     /\ jobs_succeeded' = jobs_succeeded
                                          + (IF got /\ status = 0 THEN 1 ELSE 0)
                     /\ jobs_failed' = jobs_failed
                                       + (IF got /\ status # 0 THEN 1 ELSE 0)
                                       + (IF hupcount THEN 1 ELSE 0)
                     /\ workers' = [workers EXCEPT
                                      ![idx].current_job = cur2,
                                      ![idx].active = ~(readfail \/ sendfail \/ hup)]
                     /\ lost' = IF (readfail \/ hup) /\ cur2 >= 0
                                THEN lost \cup {cur2}
                                ELSE lost
       ELSE UNCHANGED << workers, from_pipe, to_pipe, next_job, jobs_completed,
                         jobs_succeeded, jobs_failed, sent, sent_after_crash,
                         lost >>
    /\ IF idx < num_workers
       THEN idx' = idx + 1 /\ pc' = pc /\ revents' = [revents EXCEPT ![idx] = {}]
       ELSE idx' = 0 /\ pc' = "top" /\ revents' = revents
    /\ UNCHANGED << num_jobs, max_workers, eof_pollin, num_workers,
                    started_workers, ret, result, proc, wjob,
                    parent_fds, reaped, executed, returned_ok, returned_fail, crashed,
                    poll_failed, loop_ran >>
    /\ UNCHANGED not_jqvars

\* lines 303-315, one iteration: the shutdown message and the close() calls
Shutdown ==
    /\ pc = "shutdown"
    /\ IF idx < num_workers
       THEN /\ IF worker_was_forked(idx)
               THEN /\ to_pipe' = IF WriteToWorkerOk(idx)
                                  THEN [to_pipe EXCEPT ![idx] = Append(@, -1)]
                                  ELSE to_pipe
                    /\ parent_fds' = [parent_fds EXCEPT ![idx] = FALSE]
               ELSE UNCHANGED << to_pipe, parent_fds >>
            /\ idx' = idx + 1
            /\ pc' = pc
       ELSE /\ pc' = "wait"
            /\ idx' = 0
            /\ UNCHANGED << to_pipe, parent_fds >>
    /\ UNCHANGED << num_jobs, max_workers, eof_pollin, num_workers,
                    started_workers, workers, next_job, jobs_completed,
                    jobs_succeeded, jobs_failed, revents, ret, result, proc,
                    wjob, from_pipe, reaped, sent, executed, returned_ok, returned_fail, lost,
                    crashed, poll_failed, loop_ran >>
    /\ UNCHANGED sent_after_crash
    /\ UNCHANGED not_jqvars

\* lines 317-326, one iteration: waitpid() blocks until the worker has exited
WaitWorker ==
    /\ pc = "wait"
    /\ IF idx < num_workers
       THEN /\ IF worker_was_forked(idx)
               THEN /\ proc[idx] = "exited"
                    /\ reaped' = [reaped EXCEPT ![idx] = TRUE]
               ELSE UNCHANGED reaped
            /\ idx' = idx + 1
            /\ pc' = pc
       ELSE /\ pc' = "done"
            /\ UNCHANGED << idx, reaped >>
    /\ UNCHANGED << num_jobs, max_workers, eof_pollin, num_workers,
                    started_workers, workers, next_job, jobs_completed,
                    jobs_succeeded, jobs_failed, revents, ret, result, proc,
                    wjob, to_pipe, from_pipe, parent_fds, sent, executed,
                    returned_ok, returned_fail, lost, crashed, poll_failed, loop_ran >>
    /\ UNCHANGED sent_after_crash
    /\ UNCHANGED not_jqvars

\* worker_loop, lines 47-53: worker_init succeeds
WorkerInit(w) ==
    /\ proc[w] = "init"
    /\ proc' = [proc EXCEPT ![w] = "idle"]
    /\ UNCHANGED << num_jobs, max_workers, eof_pollin, pc, idx, num_workers,
                    started_workers, workers, next_job, jobs_completed,
                    jobs_succeeded, jobs_failed, revents, ret, result, wjob,
                    to_pipe, from_pipe, parent_fds, reaped, sent, executed,
                    returned_ok, returned_fail, lost, crashed, poll_failed, loop_ran >>
    /\ UNCHANGED sent_after_crash
    /\ UNCHANGED not_jqvars

\* worker_loop, lines 59-74: read() a JobMessage; end of file or a negative
\* index ends the worker, any other index starts job_func
WorkerRead(w) ==
    /\ proc[w] = "idle"
    /\ to_pipe[w] # << >> \/ ~parent_fds[w]
    /\ IF to_pipe[w] # << >> /\ Head(to_pipe[w]) >= 0
       THEN /\ proc' = [proc EXCEPT ![w] = "busy"]
            /\ wjob' = [wjob EXCEPT ![w] = Head(to_pipe[w])]
            /\ executed' = [executed EXCEPT ![Head(to_pipe[w])] = @ + 1]
            /\ to_pipe' = [to_pipe EXCEPT ![w] = Tail(@)]
       ELSE /\ proc' = [proc EXCEPT ![w] = "exited"]
            /\ to_pipe' = [to_pipe EXCEPT ![w] = << >>]
            /\ UNCHANGED << wjob, executed >>
    /\ UNCHANGED << num_jobs, max_workers, eof_pollin, pc, idx, num_workers,
                    started_workers, workers, next_job, jobs_completed,
                    jobs_succeeded, jobs_failed, revents, ret, result,
                    from_pipe, parent_fds, reaped, sent, returned_ok, returned_fail, lost,
                    crashed, poll_failed, loop_ran >>
    /\ UNCHANGED sent_after_crash
    /\ UNCHANGED not_jqvars

\* worker_loop, lines 72-80: job_func returns st and the status is written;
\* the write fails once the parent has closed its end, and the worker leaves
WorkerFinish(w, st) ==
    /\ proc[w] = "busy"
    /\ returned_ok' = returned_ok + (IF st = 0 THEN 1 ELSE 0)
    /\ returned_fail' = returned_fail + (IF st = 0 THEN 0 ELSE 1)
    /\ IF parent_fds[w]
       THEN /\ from_pipe' = [from_pipe EXCEPT ![w] = Append(@, st)]
            /\ proc' = [proc EXCEPT ![w] = "idle"]
            /\ UNCHANGED to_pipe
       ELSE /\ proc' = [proc EXCEPT ![w] = "exited"]
            /\ to_pipe' = [to_pipe EXCEPT ![w] = << >>]
            /\ UNCHANGED from_pipe
    /\ wjob' = [wjob EXCEPT ![w] = -1]
    /\ UNCHANGED << num_jobs, max_workers, eof_pollin, pc, idx, num_workers,
                    started_workers, workers, next_job, jobs_completed,
                    jobs_succeeded, jobs_failed, revents, ret, result,
                    parent_fds, reaped, sent, executed, lost, crashed,
                    poll_failed, loop_ran >>
    /\ UNCHANGED sent_after_crash
    /\ UNCHANGED not_jqvars

\* the worker process ends on its own: worker_init fails (lines 49-52), or
\* job_func or the process is killed; its pipe ends are closed by the kernel
WorkerDie(w) ==
    /\ proc[w] \in {"init", "idle", "busy"}
    /\ pc \in {"fork", "initial", "top", "poll", "scan"}
    /\ proc' = [proc EXCEPT ![w] = "exited"]
    /\ crashed' = [crashed EXCEPT ![w] = TRUE]
    /\ to_pipe' = [to_pipe EXCEPT ![w] = << >>]
    /\ wjob' = [wjob EXCEPT ![w] = -1]
    /\ UNCHANGED << num_jobs, max_workers, eof_pollin, pc, idx, num_workers,
                    started_workers, workers, next_job, jobs_completed,
                    jobs_succeeded, jobs_failed, revents, ret, result,
                    from_pipe, parent_fds, reaped, sent, executed, returned_ok,
                    returned_fail, lost, poll_failed, loop_ran >>
    /\ UNCHANGED sent_after_crash
    /\ UNCHANGED not_jqvars

Parent ==
    \/ Start
    \/ ForkWorker
    \/ ForkFail
    \/ AllocFds
    \/ AllocFdsFail
    \/ InitialSend
    \/ LoopTop
    \/ Poll
    \/ PollFail
    \/ ScanWorker
    \/ Shutdown
    \/ WaitWorker

Worker(w) ==
    \/ WorkerInit(w)
    \/ WorkerRead(w)
    \/ \E st \in {0, 1} : WorkerFinish(w, st)

(***************************************************************************)
(* manifest.c                                                              *)
(*                                                                         *)
(* Longitudes and latitudes are integers on a grid of GridUnits units per  *)
(* axis, half a tile at zoom MaxZoom.  A longitude u stands for            *)
(* -180 + 360 * u / GridUnits degrees.  A latitude t is the Web-Mercator   *)
(* northing of the latitude scaled to 0 .. GridUnits, so that              *)
(* (1 - asinh(tan(lat)) / pi) / 2 = (GridUnits - t) / GridUnits: equal     *)
(* grid steps are equal tile rows, as in get_tile_at_zoom.  At the zoom    *)
(* levels of the model latitude +/-85 lies in the outermost tile row, so   *)
(* the two latitude clamps are the two edges of the grid.  Floating-point  *)
(* rounding and a failing realloc() are not modelled.                      *)
(***************************************************************************)
GridUnits == 2 ^ (MaxZoom + 1)

\* lines 69-72: the four clamps of add_tiles_for_bounds, on the grid
LonMinus180 == 0
LonPlus180 == GridUnits
LatMinus85 == 0
LatPlus85 == GridUnits

\* the C conversion (int)(num / den): truncation towards zero
TruncToInt(num, den) ==
    IF num >= 0 THEN num \div den ELSE -((-num) \div den)

RECURSIVE BitOr(_, _)
BitOr(a, b) ==
    IF a = 0 THEN b
    ELSE IF b = 0 THEN a
    ELSE (IF a % 2 = 1 \/ b % 2 = 1 THEN 1 ELSE 0) + 2 * BitOr(a \div 2, b \div 2)

\* lines 21-23.  A PackedTile (uint32_t) is the pair of its upper and its
\* lower PackShift bits.
pack_tile(x, y) ==
    LET half == 2 ^ PackShift
        upper == 2 ^ (PackedTileBits - PackShift)
    IN  << BitOr(x % upper, (y \div half) % upper), y % half >>

\* ta < tb on uint32_t
PackedLess(ta, tb) ==
    ta[1] < tb[1] \/ (ta[1] = tb[1] /\ ta[2] < tb[2])

\* lines 26-32
compare_tiles(ta, tb) ==
    IF PackedLess(ta, tb) THEN -1 ELSE IF PackedLess(tb, ta) THEN 1 ELSE 0

\* lines 35-46
get_tile_at_zoom(lon, lat, zoom) ==
    LET n == 2 ^ zoom
        x0 == TruncToInt((lon - LonMinus180) * n, GridUnits)
        y0 == TruncToInt((GridUnits - lat) * n, GridUnits)
        x1 == IF x0 < 0 THEN 0 ELSE x0
        y1 == IF y0 < 0 THEN 0 ELSE y0
    IN  [x |-> IF x1 >= n THEN n - 1 ELSE x1,
         y |-> IF y1 >= n THEN n - 1 ELSE y1]

\* lines 87-91: the tiles the two nested loops append, in their order
TilesInRange(x_min, x_max, y_min, y_max) ==
    LET w == x_max - x_min + 1
        h == y_max - y_min + 1
    IN  IF w <= 0 \/ h <= 0
        THEN << >>
        ELSE [i \in 1 .. (w * h) |->
                 pack_tile(x_min + ((i - 1) \div h), y_min + ((i - 1) % h))]

\* lines 66-94.  The result is the tiles appended and whether the call
\* returned; it does not return when the recursion of lines 77-79 needs more
\* than depth nested calls.
RECURSIVE add_tiles_for_bounds(_, _, _, _, _, _)
add_tiles_for_bounds(lon_min, lat_min, lon_max, lat_max, zoom, depth) ==
    LET lo == IF lon_min < LonMinus180 THEN LonMinus180 ELSE lon_min
        hi == IF lon_max > LonPlus180 THEN LonPlus180 ELSE lon_max
        la == IF lat_min < LatMinus85 THEN LatMinus85 ELSE lat_min
        lb == IF lat_max > LatPlus85 THEN LatPlus85 ELSE lat_max
    IN  IF lo > hi
        THEN IF depth = 0
             THEN [returns |-> FALSE, tiles |-> << >>]
             ELSE LET east == add_tiles_for_bounds(lo, la, LonPlus180, lb,
                                                   zoom, depth - 1)
                      west == add_tiles_for_bounds(LonMinus180, la, hi, lb,
                                                   zoom, depth - 1)
                  IN  IF ~east.returns
                      THEN east
                      ELSE [returns |-> west.returns,
                            tiles |-> east.tiles \o west.tiles]
        ELSE LET sw == get_tile_at_zoom(lo, la, zoom)
                 ne == get_tile_at_zoom(hi, lb, zoom)
             IN  [returns |-> TRUE,
                  tiles |-> TilesInRange(sw.x, ne.x, ne.y, sw.y)]

\* line 135
qsort_tiles(tiles) ==
    SortSeq(tiles, LAMBDA a, b : compare_tiles(a, b) < 0)

\* lines 138-144: the read/write loop over the sorted array
RECURSIVE RemoveDuplicates(_, _, _)
RemoveDuplicates(tiles, read, kept) ==
    IF read > Len(tiles)
    THEN kept
    ELSE RemoveDuplicates(tiles, read + 1,
                          IF tiles[read] # kept[Len(kept)]
                          THEN Append(kept, tiles[read])
                          ELSE kept)

finalize_zoom_sort_only(tiles) == qsort_tiles(tiles)

\* lines 131-145
finalize_zoom(tiles) ==
    IF Len(tiles) <= 1
    THEN tiles
    ELSE LET sorted == qsort_tiles(tiles)
         IN  RemoveDuplicates(sorted, 2, << sorted[1] >>)

\* lines 179-181
ds_max_zoom(max_lod, min_zoom, max_zoom) ==
    LET a == IF max_lod > max_zoom THEN max_zoom ELSE max_lod
    IN  IF a < min_zoom THEN min_zoom ELSE a

\* lines 163-193: one iteration of the loop over the datasets
AddDataset(zooms, dataset, min_zoom, max_zoom) ==
    IF ~dataset.tif
    THEN zooms
    ELSE [i \in DOMAIN zooms |->
            IF min_zoom + i <= ds_max_zoom(dataset.max_lod, min_zoom, max_zoom)
            THEN zooms[i] \o add_tiles_for_bounds(dataset.lon_min, dataset.lat_min,
                                                  dataset.lon_max, dataset.lat_max,
                                                  min_zoom + i, MaxRecursion).tiles
            ELSE zooms[i]]

\* lines 151-194: the levels after the loop over the datasets
RECURSIVE AddDatasets(_, _, _)
AddDatasets(ts, d, zooms) ==
    IF d > Len(ts.datasets)
    THEN zooms
    ELSE AddDatasets(ts, d + 1,
                     AddDataset(zooms, ts.datasets[d], ts.zoom_min, ts.zoom_max))

UnsortedZooms(ts) ==
    AddDatasets(ts, 1, [i \in 0 .. (ts.zoom_max - ts.zoom_min) |-> << >>])

\* lines 148-152 and 196-201: the manifest made of the levels the loop
\* over the datasets has filled
FinalizedManifest(ts, zooms) ==
    [min_zoom |-> ts.zoom_min,
     max_zoom |-> ts.zoom_max,
     zooms |-> [i \in DOMAIN zooms |-> finalize_zoom(zooms[i])]]

\* lines 147-202
build_tile_manifest(ts) == FinalizedManifest(ts, UnsortedZooms(ts))

\* bsearch() over a level, as manifest_contains calls it (line 213)
RECURSIVE bsearch(_, _, _, _)
bsearch(target, tiles, lo, hi) ==
    IF lo > hi
    THEN FALSE
    ELSE LET mid == (lo + hi) \div 2
             c == compare_tiles(target, tiles[mid])
         IN  IF c = 0 THEN TRUE
             ELSE IF c < 0 THEN bsearch(target, tiles, lo, mid - 1)
             ELSE bsearch(target, tiles, mid + 1, hi)

\* lines 204-214, for a manifest that is not NULL
manifest_contains(m, z, x, y) ==
    IF z < m.min_zoom \/ z > m.max_zoom
    THEN FALSE
    ELSE LET zts == m.zooms[z - m.min_zoom]
         IN  IF Len(zts) = 0
             THEN FALSE
             ELSE bsearch(pack_tile(x, y), zts, 1, Len(zts))

\* lines 216-224
manifest_tile_count(m) ==
    LET RECURSIVE Sum(_)
        Sum(z) == IF z > m.max_zoom
                  THEN 0
                  ELSE Len(m.zooms[z - m.min_zoom]) + Sum(z + 1)
    IN  Sum(m.min_zoom)

(***************************************************************************)
(* The inputs of build_tile_manifest.  bounds_from_tif (lines 97-128)      *)
(* yields lon_min < lon_max and lat_min < lat_max for every raster, since  *)
(* the raster has a positive size; the extent may reach past +/-180 and    *)
(* past +/-85.                                                             *)
(***************************************************************************)
LonInputs == {-1, GridUnits \div 2, GridUnits + 1}
LatInputs == {-1, (GridUnits \div 2) - 1, GridUnits + 1}

\* max_lod below, inside and above the zoom ranges of the tilesets
LodInputs == {0, MaxZoom - 1, MaxZoom + 1}

DatasetInputs ==
    [max_lod : LodInputs,
     tif : {TRUE},
     lon_min : LonInputs, lon_max : LonInputs,
     lat_min : LatInputs, lat_max : LatInputs]

\* a dataset whose reprojected TIF is missing: its bounds cannot be read
MissingTif ==
    [max_lod |-> MaxZoom, tif |-> FALSE,
     lon_min |-> 0, lon_max |-> 0, lat_min |-> 0, lat_max |-> 0]

DatasetsFromTif ==
    {d \in DatasetInputs : d.lon_min < d.lon_max /\ d.lat_min < d.lat_max}
    \cup {MissingTif}

\* the tilesets of at most MaxDatasets datasets with zoom_min <= zoom_max
IsTilesetInput(ts) ==
    \E a \in 0 .. MaxZoom, b \in 0 .. MaxZoom, n \in 0 .. MaxDatasets :
        \E ds \in [1 .. n -> DatasetsFromTif] :
            /\ a <= b
            /\ ts = [zoom_min |-> a, zoom_max |-> b, datasets |-> ds]

\* tiling.c:708-711
NoOverviewCounts == [generated |-> 0, skipped |-> 0, existing |-> 0]
NoOverviewCalls == [made |-> 0, failed |-> 0]

NoFirstRun == [done |-> FALSE, files |-> << >>, writes |-> << >>, deleted |-> {}]

NoTileset == [zoom_min |-> 0, zoom_max |-> 0, datasets |-> << >>]
NoManifest == [min_zoom |-> 0, max_zoom |-> -1, zooms |-> << >>]

NoBounds == [lon_min |-> 0, lat_min |-> 0, lon_max |-> 0, lat_max |-> 0,
             zoom |-> 0]

BoundsIdle ==
    /\ b_args = NoBounds
    /\ b_stack = << >>
    /\ b_pc = "idle"
    /\ b_calls = << >>
    /\ b_tiles = << >>

ManifestIdle ==
    /\ tileset = NoTileset
    /\ m_pc = "idle"
    /\ manifest = NoManifest
    /\ raw_zooms = << >>
    /\ BoundsIdle

JQIdle ==
    /\ num_jobs = 0
    /\ max_workers = 0
    /\ eof_pollin = FALSE
    /\ pc = "idle"
    /\ idx = 0
    /\ num_workers = 0
    /\ started_workers = 0
    /\ workers = [w \in WorkerIds |-> WorkerStateInit]
    /\ next_job = 0
    /\ jobs_completed = 0
    /\ jobs_succeeded = 0
    /\ jobs_failed = 0
    /\ revents = [w \in WorkerIds |-> {}]
    /\ ret = -1
    /\ result = [completed |-> -1, failed |-> -1]
    /\ proc = [w \in WorkerIds |-> "none"]
    /\ wjob = [w \in WorkerIds |-> -1]
    /\ to_pipe = [w \in WorkerIds |-> << >>]
    /\ from_pipe = [w \in WorkerIds |-> << >>]
    /\ parent_fds = [w \in WorkerIds |-> FALSE]
    /\ reaped = [w \in WorkerIds |-> FALSE]
    /\ sent = [j \in JobIds |-> 0]
    /\ sent_after_crash = {}
    /\ executed = [j \in JobIds |-> 0]
    /\ returned_ok = 0
    /\ returned_fail = 0
    /\ lost = {}
    /\ crashed = [w \in WorkerIds |-> FALSE]
    /\ poll_failed = FALSE
    /\ loop_ran = FALSE

(***************************************************************************)
(* vrt.c and tiling.c: generate_tileset_tiles_parallel for one tileset.    *)
(*                                                                         *)
(* A tile file <outpath>/<tile_path>/<z>/<x>/<y>.<ext> is the record       *)
(* [z, x, y].  The reprojected rasters carry an alpha band, so a base tile *)
(* has opaque pixels exactly where a source of the mosaic it is read from  *)
(* overlaps the tile; the sources of a file are the datasets whose pixels  *)
(* it holds.  A failing mmap() or malloc() is not modelled; a failing GDAL *)
(* call inside a tile is (at most MaxTileFailures times in a run).         *)
(***************************************************************************)
TileWorkerIds == 0 .. (MaxTileWorkers - 1)

\* vrt.c:62-120, for one tileset: the sources of <tmppath>/__<name>.vrt
build_tilesets_vrt(ts) ==
    IF Len(ts.datasets) = 0 \/ \E d \in DOMAIN ts.datasets : ~ts.datasets[d].tif
    THEN [built |-> FALSE, sources |-> << >>]
    ELSE [built |-> TRUE, sources |-> [d \in DOMAIN ts.datasets |-> d]]

\* tiling.c:556-594
get_base_tile_list(m) ==
    LET RECURSIVE Level(_)
        Level(z) ==
            IF z > m.max_zoom
            THEN << >>
            ELSE [i \in DOMAIN m.zooms[z - m.min_zoom] |->
                     [z |-> z,
                      x |-> m.zooms[z - m.min_zoom][i][1],
                      y |-> m.zooms[z - m.min_zoom][i][2]]]
                 \o Level(z + 1)
    IN  Level(m.min_zoom)

\* tiling.c:789-792
ActualTileWorkers(requested, total_tiles) ==
    IF requested > total_tiles THEN total_tiles ELSE requested

\* tiling.c:835: the value atomic_fetch_add leaves in the counter
fetch_add_keeps(n) == n
fetch_add_stores(n) == n + 1

\* tiling.c:92 and 322: stat(file_path) == 0
tile_never_exists(files, t) == FALSE
tile_exists(files, t) == t \in DOMAIN files

\* tiling.c:116-119, 138-140, 161-163, 218-230: the datasets of the mosaic
\* whose raster overlaps tile t; generate_base_tile returns 1 when none does
PixelSources(ts, mosaic, t) ==
    LET side == GridUnits \div (2 ^ t.z)
        tile_min_x == t.x * side
        tile_max_x == (t.x + 1) * side
        tile_max_y == GridUnits - (t.y * side)
        tile_min_y == GridUnits - ((t.y + 1) * side)
    IN  {mosaic[k] : k \in {j \in DOMAIN mosaic :
            LET D == ts.datasets[mosaic[j]]
            IN  ~ (\/ tile_max_x <= D.lon_min \/ tile_min_x >= D.lon_max
                   \/ tile_max_y <= D.lat_min \/ tile_min_y >= D.lat_max)}}

\* tiling.c:326-334
ChildTiles(t) ==
    {[z |-> t.z + 1, x |-> (t.x * 2) + dx, y |-> (t.y * 2) + dy] :
        dx \in {0, 1}, dy \in {0, 1}}

\* tiling.c:633-706: the parents of the tile files found under <zoom + 1>/
ParentTiles(files, zoom) ==
    {[z |-> zoom, x |-> c.x \div 2, y |-> c.y \div 2] :
        c \in {t \in DOMAIN files : t.z = zoom + 1}}

\* tiling.c:360-370: the children that stat() finds and GDALOpen opens; a
\* file cut short by an interrupted run is found and cannot be opened
ReadableChildren(files, t) ==
    {c \in ChildTiles(t) \cap DOMAIN files : files[c].kind # "truncated"}

\* tiling.c:354-408: the pixels an overview tile takes from its children
OverviewSources(files, t) ==
    UNION {files[c].sources : c \in ReadableChildren(files, t)}

\* a file that was there before generate_tileset_tiles_parallel first ran
LeftByEarlierRun(f) == f.kind \in {"leftover", "truncated"}

WriteFile(files, t, kind, sources) ==
    [u \in DOMAIN files \cup {t} |->
        IF u = t THEN [kind |-> kind, sources |-> sources] ELSE files[u]]

CountWrite(w, t) ==
    [u \in DOMAIN w \cup {t} |->
        IF u = t THEN (IF t \in DOMAIN w THEN w[t] + 1 ELSE 1) ELSE w[u]]

TimesWritten(w, t) == IF t \in DOMAIN w THEN w[t] ELSE 0

\* the writes of tile t since generate_tileset_tiles_parallel was called
WritesThisRun(t) == TimesWritten(writes, t) - TimesWritten(first_run.writes, t)

TileWorkerInit == [pc |-> "none", i |-> -1]

Exited == {"exit0", "exit1", "killed"}

TilesIdle ==
    /\ num_tile_workers = 0
    /\ vrt = [built |-> FALSE, sources |-> << >>]
    /\ t_pc = "idle"
    /\ t_w = 0
    /\ t_z = 0
    /\ t_ret = 0
    /\ tile_list = << >>
    /\ actual_workers = 0
    /\ next_tile = 0
    /\ tw = [w \in TileWorkerIds |-> TileWorkerInit]
    /\ signalled = [w \in TileWorkerIds |-> FALSE]
    /\ waited = [w \in TileWorkerIds |-> FALSE]
    /\ disk = << >>
    /\ writes = << >>
    /\ claimed = << >>
    /\ io_failures = 0
    /\ skipped_existing = {}
    /\ parents = {}
    /\ ov_started = << >>
    /\ ov_finished = << >>
    /\ first_run = NoFirstRun
    /\ ov_counts = NoOverviewCounts
    /\ ov_calls = NoOverviewCalls

(***************************************************************************)
(* processing.c and build_zoom_vrt: the states in which they are not run.  *)
(***************************************************************************)
NoHandles == [live |-> {}, closes |-> << >>]

ProcessIdle ==
    /\ p_cfg = [palette |-> FALSE, mask |-> FALSE, gcps |-> FALSE,
                geobound |-> FALSE]
    /\ p_pc = "idle"
    /\ p_src = 0
    /\ p_handles = NoHandles
    /\ p_ret = 0
    /\ p_log = << >>
    /\ p_failed = "none"
    /\ p_saved = FALSE
    /\ p_stale_use = FALSE

DatasetJobsIdle ==
    /\ d_tilesets = << >>
    /\ d_pc = "idle"
    /\ d_jobs = << >>
    /\ d_state = << >>
    /\ d_writers = << >>

ZoomVrtIdle ==
    /\ z_tileset = << >>
    /\ z_exists = {}
    /\ z_zoom = 0
    /\ z_pc = "idle"
    /\ z_ret = 0
    /\ z_files = << >>
    /\ z_gdal_failed = FALSE

NoRaster == [W |-> 0, H |-> 0, palette |-> FALSE, gt_set |-> FALSE,
             gt |-> << 0, 1, 0, 0, 0, 1 >>]

MaskIdle ==
    /\ k_src = NoRaster
    /\ k_ring = << >>
    /\ k_pc = "idle"
    /\ k_cur = NoRaster
    /\ k_win = << 0, 0 >>
    /\ k_off = << 0, 0 >>
    /\ k_ret = 0
    /\ k_saved = FALSE

ForkIdle ==
    /\ f_req = 0
    /\ f_total = 0
    /\ f_pc = "idle"
    /\ f_actual = 0
    /\ f_w = 0
    /\ f_pids = {}
    /\ f_past = {}

ProcIdle ==
    ProcessIdle /\ DatasetJobsIdle /\ ZoomVrtIdle /\ MaskIdle /\ ForkIdle

ManifestInit ==
    /\ IsTilesetInput(tileset)
    /\ m_pc = "start"
    /\ manifest = NoManifest
    /\ raw_zooms = << >>
    /\ BoundsIdle
    /\ JQIdle
    /\ TilesIdle
    /\ ProcIdle

BuildTileManifest ==
    /\ m_pc = "start"
    /\ m_pc' = "built"
    /\ raw_zooms' = UnsortedZooms(tileset)
    /\ manifest' = FinalizedManifest(tileset, raw_zooms')
    /\ UNCHANGED << tileset, bvars, jqvars, tvars, procvars >>

ManifestNext == BuildTileManifest

ManifestSpec == ManifestInit /\ [][ManifestNext]_vars

(***************************************************************************)
(* manifest.c, add_tiles_for_bounds (66-94) call by call: every call in    *)
(* progress is a frame holding its parameters and the place it has come    *)
(* to.  The bounds are any four grid values with lat_min < lat_max, the    *)
(* longitudes inside or outside [-180, 180] and in either order.           *)
(***************************************************************************)
LonBounds == {-1, GridUnits \div 4, (3 * GridUnits) \div 4, GridUnits + 1}

BoundsInputs ==
    {b \in [lon_min : LonBounds, lat_min : LatInputs,
            lon_max : LonBounds, lat_max : LatInputs, zoom : 0 .. MaxZoom] :
        b.lat_min < b.lat_max}

\* lines 69-72: the parameters after the four clamps
ClampBounds(f) ==
    [f EXCEPT !.lon_min = IF @ < LonMinus180 THEN LonMinus180 ELSE @,
              !.lon_max = IF @ > LonPlus180 THEN LonPlus180 ELSE @,
              !.lat_min = IF @ < LatMinus85 THEN LatMinus85 ELSE @,
              !.lat_max = IF @ > LatPlus85 THEN LatPlus85 ELSE @]

BoundsFrame(lon_min, lat_min, lon_max, lat_max, zoom) ==
    [lon_min |-> lon_min, lat_min |-> lat_min, lon_max |-> lon_max,
     lat_max |-> lat_max, zoom |-> zoom, at |-> "entry"]

TopFrame == b_stack[Len(b_stack)]

\* the call made from frame f has the parameters f has after its clamps:
\* it makes the same call again, and so does every call after it
SameCallAgain(f, g) == ClampBounds(g) = [ClampBounds(f) EXCEPT !.at = "entry"]

BoundsInit ==
    /\ b_args \in BoundsInputs
    /\ b_stack = << BoundsFrame(b_args.lon_min, b_args.lat_min, b_args.lon_max,
                                b_args.lat_max, b_args.zoom) >>
    /\ b_pc = "run"
    /\ b_calls = << >>
    /\ b_tiles = << >>
    /\ tileset = NoTileset
    /\ m_pc = "idle"
    /\ manifest = NoManifest
    /\ raw_zooms = << >>
    /\ JQIdle
    /\ TilesIdle
    /\ ProcIdle

\* lines 69-77: lon_min > lon_max after the clamps; the first nested call
BoundsSplitEast ==
    /\ b_pc = "run"
    /\ TopFrame.at = "entry"
    /\ LET f == ClampBounds(TopFrame)
           g == BoundsFrame(f.lon_min, f.lat_min, LonPlus180, f.lat_max, f.zoom)
       IN  /\ f.lon_min > f.lon_max
           /\ Len(b_stack) <= MaxRecursion
           /\ b_stack' = Append([b_stack EXCEPT ![Len(b_stack)] =
                                    [f EXCEPT !.at = "east"]], g)
           /\ b_calls' = Append(b_calls, << g.lon_min, g.lon_max >>)
           /\ b_pc' = IF SameCallAgain(f, g) THEN "unbounded" ELSE b_pc
    /\ UNCHANGED << b_args, b_tiles >>
    /\ UNCHANGED << tileset, m_pc, manifest, raw_zooms, jqvars, tvars, procvars >>

\* line 79: the first nested call has returned 0; the second nested call
BoundsSplitWest ==
    /\ b_pc = "run"
    /\ TopFrame.at = "east"
    /\ LET f == TopFrame
           g == BoundsFrame(LonMinus180, f.lat_min, f.lon_max, f.lat_max, f.zoom)
       IN  /\ Len(b_stack) <= MaxRecursion
           /\ b_stack' = Append([b_stack EXCEPT ![Len(b_stack)] =
                                    [f EXCEPT !.at = "west"]], g)
           /\ b_calls' = Append(b_calls, << g.lon_min, g.lon_max >>)
           /\ b_pc' = IF SameCallAgain(f, g) THEN "unbounded" ELSE b_pc
    /\ UNCHANGED << b_args, b_tiles >>
    /\ UNCHANGED << tileset, m_pc, manifest, raw_zooms, jqvars, tvars, procvars >>

\* lines 82-93: no split; the tiles of the range are appended and the call
\* returns 0
BoundsAddTiles ==
    /\ b_pc = "run"
    /\ TopFrame.at = "entry"
    /\ LET f == ClampBounds(TopFrame)
           sw == get_tile_at_zoom(f.lon_min, f.lat_min, f.zoom)
           ne == get_tile_at_zoom(f.lon_max, f.lat_max, f.zoom)
       IN  /\ ~ (f.lon_min > f.lon_max)
           /\ b_tiles' = b_tiles \o TilesInRange(sw.x, ne.x, ne.y, sw.y)
    /\ b_stack' = SubSeq(b_stack, 1, Len(b_stack) - 1)
    /\ b_pc' = IF Len(b_stack) = 1 THEN "returned" ELSE b_pc
    /\ UNCHANGED << b_args, b_calls >>
    /\ UNCHANGED << tileset, m_pc, manifest, raw_zooms, jqvars, tvars, procvars >>

\* line 79: the second nested call has returned; its result is returned
BoundsReturn ==
    /\ b_pc = "run"
    /\ TopFrame.at = "west"
    /\ b_stack' = SubSeq(b_stack, 1, Len(b_stack) - 1)
    /\ b_pc' = IF Len(b_stack) = 1 THEN "returned" ELSE b_pc
    /\ UNCHANGED << b_args, b_calls, b_tiles >>
    /\ UNCHANGED << tileset, m_pc, manifest, raw_zooms, jqvars, tvars, procvars >>

BoundsNext ==
    \/ BoundsSplitEast
    \/ BoundsSplitWest
    \/ BoundsAddTiles
    \/ BoundsReturn

BoundsSpec == BoundsInit /\ [][BoundsNext]_vars

(***************************************************************************)
(* The inputs of generate_tileset_tiles_parallel: a tileset whose zoom     *)
(* range ends at MaxZoom, with a first dataset of max_lod MaxZoom that     *)
(* spans two tile columns of one tile row at MaxZoom, alone or followed by *)
(* a second dataset; the mosaic build_tilesets_vrt made of it; at most one *)
(* tile file left by an earlier run.                                       *)
(***************************************************************************)
FirstDataset ==
    [max_lod |-> MaxZoom, tif |-> TRUE,
     lon_min |-> 1, lon_max |-> 3,
     lat_min |-> GridUnits - 1, lat_max |-> GridUnits + 1]

SecondDatasets ==
    [max_lod : {MaxZoom - 1, MaxZoom}, tif : {TRUE},
     lon_min : {1}, lon_max : {2, 3},
     lat_min : {GridUnits - 1}, lat_max : {GridUnits + 1}]
    \cup {MissingTif}

TileDatasetLists ==
    {<< FirstDataset >>} \cup {<< FirstDataset, d >> : d \in SecondDatasets}

IsTileTileset(ts) ==
    \E a \in (MaxZoom - 2) .. MaxZoom, ds \in TileDatasetLists :
        ts = [zoom_min |-> a, zoom_max |-> MaxZoom, datasets |-> ds]

\* no tile file, one at a tile of the first dataset, one far from it, or
\* one far from it that an interrupted run left cut short
LeftoverFiles ==
    {<< >>} \cup
    {WriteFile(<< >>, t, "leftover", {}) :
        t \in {[z |-> MaxZoom, x |-> 0, y |-> 0],
               [z |-> MaxZoom, x |-> (2 ^ MaxZoom) - 1, y |-> (2 ^ MaxZoom) - 1]}}
    \cup
    {WriteFile(<< >>, [z |-> MaxZoom, x |-> (2 ^ MaxZoom) - 1,
                      y |-> (2 ^ MaxZoom) - 1], "truncated", {})}

TileInit ==
    /\ IsTileTileset(tileset)
    /\ m_pc = "idle"
    /\ manifest = NoManifest
    /\ raw_zooms = << >>
    /\ BoundsIdle
    /\ JQIdle
    /\ ProcIdle
    /\ num_tile_workers \in 1 .. MaxTileWorkers
    /\ vrt = build_tilesets_vrt(tileset)
    /\ t_pc = "start"
    /\ t_w = 0
    /\ t_z = 0
    /\ t_ret = 0
    /\ tile_list = << >>
    /\ actual_workers = 0
    /\ next_tile = 0
    /\ tw = [w \in TileWorkerIds |-> TileWorkerInit]
    /\ signalled = [w \in TileWorkerIds |-> FALSE]
    /\ waited = [w \in TileWorkerIds |-> FALSE]
    /\ disk \in LeftoverFiles
    /\ writes = << >>
    /\ claimed = << >>
    /\ io_failures = 0
    /\ skipped_existing = {}
    /\ parents = {}
    /\ ov_started = << >>
    /\ ov_finished = << >>
    /\ first_run = NoFirstRun
    /\ ov_counts = NoOverviewCounts
    /\ ov_calls = NoOverviewCalls

\* tiling.c:755-803: the manifest, the tile list, the shared counter
TileStart ==
    /\ t_pc = "start"
    /\ tile_list' = get_base_tile_list(build_tile_manifest(tileset))
    /\ IF Len(tile_list') > 0
       THEN /\ actual_workers' = ActualTileWorkers(num_tile_workers, Len(tile_list'))
            /\ t_pc' = "fork"
            /\ t_z' = t_z
       ELSE /\ actual_workers' = actual_workers
            /\ t_pc' = "phase2"
            /\ t_z' = tileset.zoom_max - 1
    /\ next_tile' = 0
    /\ t_w' = 0
    /\ claimed' = [i \in 0 .. (Len(tile_list') - 1) |-> 0]
    /\ UNCHANGED << num_tile_workers, vrt, t_ret, tw, signalled, waited, disk,
                    writes, io_failures, skipped_existing, parents >>
    /\ UNCHANGED << ov_started, ov_finished >>
    /\ UNCHANGED << ov_counts, ov_calls, first_run, jqvars, mvars, procvars >>

\* tiling.c:808-809, 863-865: fork() succeeds
TileFork ==
    /\ t_pc = "fork"
    /\ t_w < actual_workers
    /\ tw' = [tw EXCEPT ![t_w].pc = "open"]
    /\ IF t_w + 1 < actual_workers
       THEN t_w' = t_w + 1 /\ t_pc' = t_pc
       ELSE t_w' = 0 /\ t_pc' = "wait"
    /\ UNCHANGED << num_tile_workers, vrt, t_z, t_ret, tile_list, actual_workers,
                    next_tile, signalled, waited, disk, writes, claimed,
                    io_failures, skipped_existing, parents >>
    /\ UNCHANGED << ov_started, ov_finished >>
    /\ UNCHANGED << ov_counts, ov_calls, first_run, jqvars, mvars, procvars >>

\* tiling.c:810-819: fork() fails; SIGTERM to the workers started so far
TileForkFail ==
    /\ t_pc = "fork"
    /\ t_w < actual_workers
    /\ signalled' = [w \in TileWorkerIds |->
                        signalled[w] \/ (w < t_w /\ tw[w].pc \notin Exited)]
    /\ t_pc' = "failed"
    /\ t_ret' = -1
    /\ UNCHANGED << num_tile_workers, vrt, t_w, t_z, tile_list, actual_workers,
                    next_tile, tw, waited, disk, writes, claimed,
                    io_failures, skipped_existing, parents >>
    /\ UNCHANGED << ov_started, ov_finished >>
    /\ UNCHANGED << ov_counts, ov_calls, first_run, jqvars, mvars, procvars >>

\* tiling.c:868: the wait loop has come to its last worker
phase2_after_first_wait(w, n) == TRUE
all_workers_waited(w, n) == w + 1 >= n

\* tiling.c:868-880: waitpid() for worker t_w returns
TileWait ==
    /\ t_pc = "wait"
    /\ t_w < actual_workers
    /\ tw[t_w].pc \in Exited
    /\ waited' = [waited EXCEPT ![t_w] = TRUE]
    /\ IF tw[t_w].pc # "exit0"
       THEN t_pc' = "failed" /\ t_ret' = -1 /\ t_w' = t_w /\ t_z' = t_z
       ELSE /\ t_ret' = t_ret
            /\ IF ~all_workers_waited(t_w, actual_workers)
               THEN t_w' = t_w + 1 /\ t_pc' = t_pc /\ t_z' = t_z
               ELSE /\ t_w' = t_w + 1
                    /\ t_pc' = "phase2"
                    /\ t_z' = tileset.zoom_max - 1
    /\ UNCHANGED << num_tile_workers, vrt, tile_list, actual_workers, next_tile,
                    tw, signalled, disk, writes, claimed, io_failures,
                    skipped_existing, parents >>
    /\ UNCHANGED << ov_started, ov_finished >>
    /\ UNCHANGED << ov_counts, ov_calls, first_run, jqvars, mvars, procvars >>

\* tiling.c:890-891 and 611-706: the next zoom of Phase 2; the scan of the
\* child directory
OverviewZoom ==
    /\ t_pc = "phase2"
    /\ tileset.zoom_max > tileset.zoom_min
    /\ t_z >= tileset.zoom_min
    /\ parents' = ParentTiles(disk, t_z)
    /\ t_pc' = "overview"
    /\ ov_started' = Append(ov_started, t_z)
    /\ UNCHANGED ov_finished
    /\ UNCHANGED << num_tile_workers, vrt, t_w, t_z, t_ret, tile_list,
                    actual_workers, next_tile, tw, signalled, waited, disk,
                    writes, claimed, io_failures, skipped_existing >>
    /\ ov_counts' = NoOverviewCounts
    /\ ov_calls' = NoOverviewCalls
    /\ UNCHANGED << first_run, jqvars, mvars, procvars >>

\* tiling.c:713-725 with generate_overview_tile (309-540) for one parent:
\* the tile exists (returns 2), no child could be opened (returns 1 at
\* 410-414, nothing written), or the tile is written (returns 0)
OverviewTile ==
    /\ t_pc = "overview"
    /\ \E p \in parents :
          /\ parents' = parents \ {p}
          /\ IF tile_exists(disk, p)
             THEN /\ skipped_existing' = skipped_existing \cup {<< p, "overview" >>}
                  /\ UNCHANGED << disk, writes >>
                  /\ ov_counts' = [ov_counts EXCEPT !.existing = @ + 1]
             ELSE IF ReadableChildren(disk, p) = {}
             THEN /\ UNCHANGED << disk, writes, skipped_existing >>
                  /\ ov_counts' = [ov_counts EXCEPT !.skipped = @ + 1]
             ELSE /\ disk' = WriteFile(disk, p, "overview", OverviewSources(disk, p))
                  /\ writes' = CountWrite(writes, p)
                  /\ UNCHANGED skipped_existing
                  /\ ov_counts' = [ov_counts EXCEPT !.generated = @ + 1]
    /\ UNCHANGED << num_tile_workers, vrt, t_pc, t_w, t_z, t_ret, tile_list,
                    actual_workers, next_tile, tw, signalled, waited, claimed,
                    io_failures >>
    /\ UNCHANGED << ov_started, ov_finished >>
    /\ ov_calls' = [ov_calls EXCEPT !.made = @ + 1]
    /\ UNCHANGED << first_run, jqvars, mvars, procvars >>

\* generate_overview_tile returns -1 (a GDAL call fails); the loop goes on
OverviewTileFail ==
    /\ t_pc = "overview"
    /\ io_failures < MaxTileFailures
    /\ \E p \in parents :
          /\ ~tile_exists(disk, p)
          /\ parents' = parents \ {p}
    /\ io_failures' = io_failures + 1
    /\ UNCHANGED << num_tile_workers, vrt, t_pc, t_w, t_z, t_ret, tile_list,
                    actual_workers, next_tile, tw, signalled, waited, disk,
                    writes, claimed, skipped_existing >>
    /\ UNCHANGED << ov_started, ov_finished >>
    /\ ov_calls' = [made |-> ov_calls.made + 1, failed |-> ov_calls.failed + 1]
    /\ UNCHANGED << ov_counts, first_run, jqvars, mvars, procvars >>

\* tiling.c:727-736 and 890: generate_overview_tiles_for_zoom returns 0
OverviewZoomDone ==
    /\ t_pc = "overview"
    /\ parents = {}
    /\ t_z' = t_z - 1
    /\ t_pc' = "phase2"
    /\ ov_finished' = Append(ov_finished, t_z)
    /\ UNCHANGED ov_started
    /\ UNCHANGED << num_tile_workers, vrt, t_w, t_ret, tile_list, actual_workers,
                    next_tile, tw, signalled, waited, disk, writes, claimed,
                    io_failures, skipped_existing, parents >>
    /\ UNCHANGED << ov_counts, ov_calls, first_run, jqvars, mvars, procvars >>

\* tiling.c:887-902: Phase 2 is over (or there is none)
TileDone ==
    /\ t_pc = "phase2"
    /\ ~ (tileset.zoom_max > tileset.zoom_min /\ t_z >= tileset.zoom_min)
    /\ t_pc' = "done"
    /\ t_ret' = 0
    /\ UNCHANGED << num_tile_workers, vrt, t_w, t_z, tile_list, actual_workers,
                    next_tile, tw, signalled, waited, disk, writes, claimed,
                    io_failures, skipped_existing, parents >>
    /\ UNCHANGED << ov_started, ov_finished >>
    /\ UNCHANGED << ov_counts, ov_calls, first_run, jqvars, mvars, procvars >>

\* tiling.c:821-827: the worker opens <tmppath>/__<name>.vrt
TileWorkerOpen(w) ==
    /\ tw[w].pc = "open"
    /\ tw' = [tw EXCEPT ![w].pc = IF vrt.built THEN "claim" ELSE "exit1"]
    /\ UNCHANGED << num_tile_workers, vrt, t_pc, t_w, t_z, t_ret, tile_list,
                    actual_workers, next_tile, signalled, waited, disk, writes,
                    claimed, io_failures, skipped_existing, parents >>
    /\ UNCHANGED << ov_started, ov_finished >>
    /\ UNCHANGED << ov_counts, ov_calls, first_run, jqvars, mvars, procvars >>

\* tiling.c:823-827: GDALOpen fails in this worker although the mosaic was
\* built (no memory, no file descriptor): _exit(1)
TileWorkerOpenFail(w) ==
    /\ tw[w].pc = "open"
    /\ vrt.built
    /\ io_failures < MaxTileFailures
    /\ io_failures' = io_failures + 1
    /\ tw' = [tw EXCEPT ![w].pc = "exit1"]
    /\ UNCHANGED << num_tile_workers, vrt, t_pc, t_w, t_z, t_ret, tile_list,
                    actual_workers, next_tile, signalled, waited, disk, writes,
                    claimed, skipped_existing, parents >>
    /\ UNCHANGED << ov_started, ov_finished >>
    /\ UNCHANGED << ov_counts, ov_calls, first_run, jqvars, mvars, procvars >>

\* tiling.c:834-836 and 850-860: atomic_fetch_add on the shared counter
TileWorkerClaim(w) ==
    /\ tw[w].pc = "claim"
    /\ next_tile' = fetch_add_stores(next_tile)
    /\ IF next_tile >= Len(tile_list)
       THEN /\ tw' = [tw EXCEPT ![w] = [pc |-> "exit0", i |-> -1]]
            /\ claimed' = claimed
       ELSE /\ tw' = [tw EXCEPT ![w] = [pc |-> "stat", i |-> next_tile]]
            /\ claimed' = [claimed EXCEPT ![next_tile] = @ + 1]
    /\ UNCHANGED << num_tile_workers, vrt, t_pc, t_w, t_z, t_ret, tile_list,
                    actual_workers, signalled, waited, disk, writes,
                    io_failures, skipped_existing, parents >>
    /\ UNCHANGED << ov_started, ov_finished >>
    /\ UNCHANGED << ov_counts, ov_calls, first_run, jqvars, mvars, procvars >>

\* generate_base_tile, tiling.c:88-230: the tile exists (returns 2), holds
\* no pixel of the mosaic (returns 1), or is to be written
TileWorkerStat(w) ==
    /\ tw[w].pc = "stat"
    /\ LET t == tile_list[tw[w].i + 1]
       IN  IF tile_exists(disk, t)
           THEN /\ skipped_existing' = skipped_existing \cup {<< t, "base" >>}
                /\ tw' = [tw EXCEPT ![w] = [pc |-> "claim", i |-> -1]]
           ELSE /\ skipped_existing' = skipped_existing
                /\ tw' = [tw EXCEPT ![w] =
                            IF PixelSources(tileset, vrt.sources, t) = {}
                            THEN [pc |-> "claim", i |-> -1]
                            ELSE [pc |-> "write", i |-> tw[w].i]]
    /\ UNCHANGED << num_tile_workers, vrt, t_pc, t_w, t_z, t_ret, tile_list,
                    actual_workers, next_tile, signalled, waited, disk, writes,
                    claimed, io_failures, parents >>
    /\ UNCHANGED << ov_started, ov_finished >>
    /\ UNCHANGED << ov_counts, ov_calls, first_run, jqvars, mvars, procvars >>

\* generate_base_tile, tiling.c:232-293: the tile file is written
TileWorkerWrite(w) ==
    /\ tw[w].pc = "write"
    /\ LET t == tile_list[tw[w].i + 1]
       IN  /\ disk' = WriteFile(disk, t, "base",
                                PixelSources(tileset, vrt.sources, t))
           /\ writes' = CountWrite(writes, t)
    /\ tw' = [tw EXCEPT ![w] = [pc |-> "claim", i |-> -1]]
    /\ UNCHANGED << num_tile_workers, vrt, t_pc, t_w, t_z, t_ret, tile_list,
                    actual_workers, next_tile, signalled, waited, claimed,
                    io_failures, skipped_existing, parents >>
    /\ UNCHANGED << ov_started, ov_finished >>
    /\ UNCHANGED << ov_counts, ov_calls, first_run, jqvars, mvars, procvars >>

\* generate_base_tile returns -1 (a GDAL call fails); the worker goes on
TileWorkerWriteFail(w) ==
    /\ tw[w].pc = "write"
    /\ io_failures < MaxTileFailures
    /\ io_failures' = io_failures + 1
    /\ tw' = [tw EXCEPT ![w] = [pc |-> "claim", i |-> -1]]
    /\ UNCHANGED << num_tile_workers, vrt, t_pc, t_w, t_z, t_ret, tile_list,
                    actual_workers, next_tile, signalled, waited, disk, writes,
                    claimed, skipped_existing, parents >>
    /\ UNCHANGED << ov_started, ov_finished >>
    /\ UNCHANGED << ov_counts, ov_calls, first_run, jqvars, mvars, procvars >>

\* the SIGTERM of tiling.c:814 ends the worker
TileWorkerKilled(w) ==
    /\ signalled[w]
    /\ tw[w].pc \notin Exited
    /\ tw' = [tw EXCEPT ![w] = [pc |-> "killed", i |-> -1]]
    /\ UNCHANGED << num_tile_workers, vrt, t_pc, t_w, t_z, t_ret, tile_list,
                    actual_workers, next_tile, signalled, waited, disk, writes,
                    claimed, io_failures, skipped_existing, parents >>
    /\ UNCHANGED << ov_started, ov_finished >>
    /\ UNCHANGED << ov_counts, ov_calls, first_run, jqvars, mvars, procvars >>

\* the run is over without a failure; some of the base tiles it wrote at
\* zoom_max are deleted and generate_tileset_tiles_parallel (tiling.c:739)
\* is called again with the same arguments
TileRerun ==
    /\ t_pc = "done"
    /\ ~first_run.done
    /\ io_failures = 0
    /\ \E S \in SUBSET {t \in DOMAIN disk :
                          t.z = tileset.zoom_max /\ disk[t].kind = "base"} :
          /\ first_run' = [done |-> TRUE, files |-> disk, writes |-> writes,
                           deleted |-> S]
          /\ disk' = [t \in (DOMAIN disk) \ S |-> disk[t]]
    /\ t_pc' = "start"
    /\ t_w' = 0
    /\ t_z' = 0
    /\ t_ret' = 0
    /\ tile_list' = << >>
    /\ actual_workers' = 0
    /\ next_tile' = 0
    /\ tw' = [w \in TileWorkerIds |-> TileWorkerInit]
    /\ signalled' = [w \in TileWorkerIds |-> FALSE]
    /\ waited' = [w \in TileWorkerIds |-> FALSE]
    /\ claimed' = << >>
    /\ skipped_existing' = {}
    /\ parents' = {}
    /\ ov_started' = << >>
    /\ ov_finished' = << >>
    /\ ov_counts' = NoOverviewCounts
    /\ ov_calls' = NoOverviewCalls
    /\ UNCHANGED << num_tile_workers, vrt, writes, io_failures >>
    /\ UNCHANGED << jqvars, mvars, procvars >>

TileParent ==
    \/ TileStart
    \/ TileFork
    \/ TileForkFail
    \/ TileWait
    \/ OverviewZoom
    \/ OverviewTile
    \/ OverviewTileFail
    \/ OverviewZoomDone
    \/ TileDone
    \/ TileRerun

TileWorker(w) ==
    \/ TileWorkerOpen(w)
    \/ TileWorkerOpenFail(w)
    \/ TileWorkerClaim(w)
    \/ TileWorkerStat(w)
    \/ TileWorkerWrite(w)
    \/ TileWorkerWriteFail(w)
    \/ TileWorkerKilled(w)

TileNext ==
    \/ TileParent
    \/ \E w \in TileWorkerIds : TileWorker(w)

TileSpec == TileInit /\ [][TileNext]_vars

(***************************************************************************)
(* processing.c: process_dataset for one dataset.                          *)
(*                                                                         *)
(* A raster handle is a number, in the order of creation.  p_handles holds *)
(* the handles that are open and, for every handle ever made, how often    *)
(* GDALClose was called on it.  GDALTranslate and GDALWarp return a handle *)
(* or fail without one.                                                    *)
(***************************************************************************)

\* a GDAL call returns a new handle
NewHandle(hs) ==
    [live |-> hs.live \cup {Len(hs.closes) + 1}, closes |-> Append(hs.closes, 0)]

LastHandle(hs) == Len(hs.closes)

GDALCloseSkipped(hs, h) == hs
GDALClose(hs, h) ==
    [live |-> hs.live \ {h}, closes |-> [hs.closes EXCEPT ![h] = @ + 1]]

\* where process_dataset goes when a stage has returned non-zero
goes_on_after_failure(next) == next
return_after_failure(next) == "done"

ProcessFrame ==
    UNCHANGED << p_cfg, jqvars, mvars, tvars, dvars, zvars, kvars, fvars >>

\* the stage is given src
StageCalled(stage) ==
    /\ p_log' = Append(p_log, stage)
    /\ p_stale_use' = (p_stale_use \/ p_src \notin p_handles.live)

\* the stage returns non-zero, after closing the dataset it had created
\* itself if partial; process_dataset closes src and returns -1
StageFails(stage, next, partial) ==
    /\ StageCalled(stage)
    /\ LET made == IF partial
                   THEN GDALClose(NewHandle(p_handles),
                                  LastHandle(NewHandle(p_handles)))
                   ELSE p_handles
       IN  p_handles' = GDALClose(made, p_src)
    /\ p_ret' = -1
    /\ p_failed' = stage
    /\ p_pc' = return_after_failure(next)
    /\ UNCHANGED << p_src, p_saved >>

\* the stage returns 0 with *out = NULL: src is kept
StageNoOp(stage, next) ==
    /\ StageCalled(stage)
    /\ p_pc' = next
    /\ UNCHANGED << p_src, p_handles, p_ret, p_failed, p_saved >>

\* the stage returns 0 with a new dataset: src is closed and replaced
StageFresh(stage, next) ==
    /\ StageCalled(stage)
    /\ LET made == NewHandle(p_handles)
       IN  /\ p_handles' = GDALClose(made, p_src)
           /\ p_src' = LastHandle(made)
    /\ p_pc' = next
    /\ UNCHANGED << p_ret, p_failed, p_saved >>

ProcessInit ==
    /\ p_cfg \in [palette : BOOLEAN, mask : BOOLEAN, gcps : BOOLEAN,
                  geobound : BOOLEAN]
    /\ p_pc = "open"
    /\ p_src = 0
    /\ p_handles = NoHandles
    /\ p_ret = 0
    /\ p_log = << >>
    /\ p_failed = "none"
    /\ p_saved = FALSE
    /\ p_stale_use = FALSE
    /\ JQIdle
    /\ ManifestIdle
    /\ TilesIdle
    /\ DatasetJobsIdle
    /\ ZoomVrtIdle
    /\ MaskIdle
    /\ ForkIdle

\* processing.c:983-993: GDALOpen of the archive member
OpenSource ==
    /\ p_pc = "open"
    /\ \/ /\ p_handles' = NewHandle(p_handles)
          /\ p_src' = LastHandle(p_handles')
          /\ p_pc' = "expand"
          /\ UNCHANGED << p_ret, p_failed >>
       \/ /\ p_ret' = -1
          /\ p_failed' = "open"
          /\ p_pc' = "done"
          /\ UNCHANGED << p_src, p_handles >>
    /\ UNCHANGED << p_log, p_saved, p_stale_use >>
    /\ ProcessFrame

\* processing.c:999-1007 with expand_to_rgb (85-171): a no-op without a
\* colour table
ExpandRGB ==
    /\ p_pc = "expand"
    /\ \/ StageFails("ExpandRGB", "mask", FALSE)
       \/ ~p_cfg.palette /\ StageNoOp("ExpandRGB", "mask")
       \/ p_cfg.palette /\ StageFresh("ExpandRGB", "mask")
    /\ ProcessFrame

\* processing.c:1009-1019 with apply_mask (182-406): a no-op without a mask
ApplyMask ==
    /\ p_pc = "mask"
    /\ \/ p_cfg.mask /\ \E partial \in BOOLEAN : StageFails("ApplyMask", "gcp", partial)
       \/ ~p_cfg.mask /\ StageNoOp("ApplyMask", "gcp")
       \/ p_cfg.mask /\ StageFresh("ApplyMask", "gcp")
    /\ ProcessFrame

\* processing.c:1021-1030 with apply_gcps (415-564): a no-op without GCPs
ApplyGCP ==
    /\ p_pc = "gcp"
    /\ \/ p_cfg.gcps /\ \E partial \in BOOLEAN : StageFails("ApplyGCP", "lat", partial)
       \/ ~p_cfg.gcps /\ StageNoOp("ApplyGCP", "lat")
       \/ p_cfg.gcps /\ StageFresh("ApplyGCP", "lat")
    /\ ProcessFrame

\* processing.c:1032-1041: get_center_latitude_from_dataset reads src
CenterLatitude ==
    /\ p_pc = "lat"
    /\ p_stale_use' = (p_stale_use \/ p_src \notin p_handles.live)
    /\ \/ /\ p_pc' = "warp"
          /\ UNCHANGED << p_handles, p_ret, p_failed >>
       \/ /\ p_handles' = GDALClose(p_handles, p_src)
          /\ p_ret' = -1
          /\ p_failed' = "CenterLatitude"
          /\ p_pc' = return_after_failure("warp")
    /\ UNCHANGED << p_src, p_log, p_saved >>
    /\ ProcessFrame

\* processing.c:1043-1049 with warp_to_target (571-629): never a no-op
Warp ==
    /\ p_pc = "warp"
    /\ \/ StageFails("Warp", "clip", FALSE)
       \/ StageFresh("Warp", "clip")
    /\ ProcessFrame

\* processing.c:1051-1059 with clip_to_bounds (636-785): a no-op without
\* bounds, and with bounds that cut nothing off
Clip ==
    /\ p_pc = "clip"
    /\ \/ p_cfg.geobound /\ StageFails("Clip", "save", FALSE)
       \/ StageNoOp("Clip", "save")
       \/ p_cfg.geobound /\ StageFresh("Clip", "save")
    /\ ProcessFrame

\* processing.c:1061-1064 with save_with_overviews (791-905), which creates
\* the output dataset and closes it on each of its paths
Save ==
    /\ p_pc = "save"
    /\ StageCalled("Save")
    /\ \E created \in BOOLEAN, save_result \in {0, -1} :
          /\ ~created => save_result = -1
          /\ LET made == IF created
                         THEN GDALClose(NewHandle(p_handles),
                                        LastHandle(NewHandle(p_handles)))
                         ELSE p_handles
             IN  p_handles' = GDALClose(made, p_src)
          /\ p_ret' = save_result
          /\ p_saved' = (save_result = 0)
          /\ p_failed' = IF save_result = 0 THEN p_failed ELSE "Save"
    /\ p_pc' = "done"
    /\ UNCHANGED p_src
    /\ ProcessFrame

ProcessNext ==
    \/ OpenSource
    \/ ExpandRGB
    \/ ApplyMask
    \/ ApplyGCP
    \/ CenterLatitude
    \/ Warp
    \/ Clip
    \/ Save

ProcessSpec == ProcessInit /\ [][ProcessNext]_vars

(***************************************************************************)
(* processing.c: process_datasets_parallel.                                *)
(*                                                                         *)
(* A tileset is its list of dataset names.  The configuration defines the  *)
(* datasets "A" to "D"; "X" is a name it does not define.  The temp file   *)
(* of a dataset is "_<name>.tif" (config.c:28-34), one per name, so it is  *)
(* modelled by the name.  jobqueue_run hands out the job indices in        *)
(* ascending order, each at most once, to at most MaxWorkers workers.      *)
(***************************************************************************)
KnownDatasets == {"A", "B", "C", "D"}
ListedNames == KnownDatasets \cup {"X"}

\* config.c:286-293
get_dataset(name) == name \in KnownDatasets

\* processing.c:1090-1114: "A" has a mask, "B" has none
estimate_work(name) == IF name = "A" THEN 1 ELSE 0

\* processing.c:1201-1209: the job of one listed dataset
DatasetJob(name) ==
    [dataset |-> name, temp_file |-> name, estimated_work |-> estimate_work(name)]

\* processing.c:1191-1210: the jobs of one tileset, unknown names skipped
RECURSIVE TilesetJobs(_, _)
TilesetJobs(names, d) ==
    IF d > Len(names)
    THEN << >>
    ELSE (IF get_dataset(names[d]) THEN << DatasetJob(names[d]) >> ELSE << >>)
         \o TilesetJobs(names, d + 1)

\* processing.c:1181-1211: the flat job list over all tilesets
RECURSIVE PopulatedJobs(_, _)
PopulatedJobs(tilesets, t) ==
    IF t > Len(tilesets)
    THEN << >>
    ELSE TilesetJobs(tilesets[t], 1) \o PopulatedJobs(tilesets, t + 1)

\* processing.c:1117-1124
compare_jobs_by_work(ja, jb) ==
    IF jb.estimated_work > ja.estimated_work THEN 1
    ELSE IF jb.estimated_work < ja.estimated_work THEN -1
    ELSE 0

CountOf(seq, v) == Cardinality({i \in DOMAIN seq : seq[i] = v})

\* processing.c:1216: the arrays qsort may leave: the same jobs, ordered by
\* the comparison, jobs that compare equal in any order
SortedJobArrays(jobs) ==
    {s \in [DOMAIN jobs -> {jobs[i] : i \in DOMAIN jobs}] :
        /\ \A i \in DOMAIN jobs : CountOf(s, jobs[i]) = CountOf(jobs, jobs[i])
        /\ \A i \in DOMAIN s, j \in DOMAIN s :
              i < j => compare_jobs_by_work(s[i], s[j]) <= 0}

JobsInit ==
    /\ d_tilesets \in UNION {[1 .. n -> UNION {[1 .. k -> ListedNames] :
                                                  k \in 0 .. MaxDatasets}] :
                               n \in 0 .. MaxTilesets}
    /\ d_pc = "start"
    /\ d_jobs = << >>
    /\ d_state = << >>
    /\ d_writers = << >>
    /\ JQIdle
    /\ ManifestIdle
    /\ TilesIdle
    /\ ProcessIdle
    /\ ZoomVrtIdle
    /\ MaskIdle
    /\ ForkIdle

JobsFrame ==
    UNCHANGED << d_tilesets, jqvars, mvars, tvars, pvars, zvars, kvars, fvars >>

\* processing.c:1164-1241: count, populate, sort, configure the queue
PopulateJobs ==
    /\ d_pc = "start"
    /\ d_jobs' \in SortedJobArrays(PopulatedJobs(d_tilesets, 1))
    /\ d_state' = [i \in DOMAIN d_jobs' |-> "queued"]
    /\ d_writers' = [f \in {d_jobs'[i].temp_file : i \in DOMAIN d_jobs'} |-> {}]
    /\ d_pc' = IF Len(d_jobs') = 0 THEN "done" ELSE "queue"
    /\ JobsFrame

\* jobqueue_run hands job i to a worker: dataset_job_func (1139-1152)
StartDatasetJob ==
    /\ d_pc = "queue"
    /\ \E i \in DOMAIN d_jobs :
          /\ d_state[i] = "queued"
          /\ \A j \in 1 .. (i - 1) : d_state[j] # "queued"
          /\ Cardinality({j \in DOMAIN d_jobs : d_state[j] = "running"}) < MaxWorkers
          /\ d_state' = [d_state EXCEPT ![i] = "running"]
    /\ UNCHANGED << d_pc, d_jobs, d_writers >>
    /\ JobsFrame

\* process_dataset of job i returns; save_with_overviews has written
\* job->temp_file unless an earlier stage failed
FinishDatasetJob ==
    /\ d_pc = "queue"
    /\ \E i \in DOMAIN d_jobs, wrote \in BOOLEAN :
          /\ d_state[i] = "running"
          /\ d_state' = [d_state EXCEPT ![i] = "finished"]
          /\ d_writers' = IF wrote
                          THEN [d_writers EXCEPT ![d_jobs[i].temp_file] = @ \cup {i}]
                          ELSE d_writers
    /\ UNCHANGED << d_pc, d_jobs >>
    /\ JobsFrame

\* processing.c:1244-1252: jobqueue_run has returned
DatasetJobsDone ==
    /\ d_pc = "queue"
    /\ \A i \in DOMAIN d_jobs : d_state[i] = "finished"
    /\ d_pc' = "done"
    /\ UNCHANGED << d_jobs, d_state, d_writers >>
    /\ JobsFrame

JobsNext ==
    \/ PopulateJobs
    \/ StartDatasetJob
    \/ FinishDatasetJob
    \/ DatasetJobsDone

JobsSpec == JobsInit /\ [][JobsNext]_vars

(***************************************************************************)
(* vrt.c: build_zoom_vrt.                                                  *)
(*                                                                         *)
(* z_tileset is the tileset's dataset list, z_exists the datasets whose    *)
(* reprojected file is on disk, z_zoom the zoom asked for.  An entry keeps *)
(* the position d of the listing it was made from, which the code does not *)
(* store, so that the order of entries can be compared with the listing.   *)
(***************************************************************************)
\* the max_lod of the configured datasets: "B" and "D" have the same
dataset_max_lod == [name \in KnownDatasets |->
                       CASE name = "A" -> 10
                         [] name = "B" -> 8
                         [] name = "C" -> 6
                         [] name = "D" -> 8]

ZoomInputs == {6, 9, 11}

\* vrt.c:158 negated, with every dataset passing
dataset_always_qualifies(max_lod, zoom) == TRUE

\* vrt.c:158 negated
dataset_qualifies(max_lod, zoom) == max_lod >= zoom

\* vrt.c:164 negated, with stat never failing
file_always_exists(name, exists) == TRUE

\* vrt.c:161-164 negated: stat of <tmppath>/<tmp_file> succeeds
file_exists(name, exists) == name \in exists

\* vrt.c:153-169: the entries collected from listing d onwards
RECURSIVE CollectEntries(_, _, _, _)
CollectEntries(names, zoom, exists, d) ==
    IF d > Len(names)
    THEN << >>
    ELSE (IF /\ get_dataset(names[d])
             /\ dataset_qualifies(dataset_max_lod[names[d]], zoom)
             /\ file_exists(names[d], exists)
          THEN << [tmp_file_path |-> names[d],
                   max_lod |-> dataset_max_lod[names[d]],
                   d |-> d] >>
          ELSE << >>)
         \o CollectEntries(names, zoom, exists, d + 1)

\* vrt.c:123-128
compare_by_max_lod_desc(ea, eb) == eb.max_lod - ea.max_lod

\* vrt.c:178: the arrays qsort may leave: the same entries, ordered by the
\* comparison, entries that compare equal in any order
SortedEntryArrays(entries) ==
    {s \in [DOMAIN entries -> {entries[i] : i \in DOMAIN entries}] :
        /\ \A i \in DOMAIN entries : \E j \in DOMAIN s : s[j] = entries[i]
        /\ \A i \in DOMAIN s, j \in DOMAIN s :
              i < j => compare_by_max_lod_desc(s[i], s[j]) <= 0}

\* vrt.c:189-191
sorted_files == [i \in DOMAIN z_files |-> z_files[i].tmp_file_path]

ZoomVrtInit ==
    /\ z_tileset \in UNION {[1 .. n -> ListedNames] : n \in 0 .. MaxVrtDatasets}
    /\ z_exists \in SUBSET KnownDatasets
    /\ z_zoom \in ZoomInputs
    /\ z_pc = "call"
    /\ z_ret = 0
    /\ z_files = << >>
    /\ z_gdal_failed = FALSE
    /\ JQIdle
    /\ ManifestIdle
    /\ TilesIdle
    /\ ProcessIdle
    /\ DatasetJobsIdle
    /\ MaskIdle
    /\ ForkIdle

ZoomVrtFrame ==
    UNCHANGED << z_tileset, z_exists, z_zoom, jqvars, mvars, tvars, pvars, dvars,
                 kvars, fvars >>

\* vrt.c:171-175: no entry was collected
BuildZoomVrtNoEntries ==
    /\ z_pc = "call"
    /\ CollectEntries(z_tileset, z_zoom, z_exists, 1) = << >>
    /\ z_ret' = -1
    /\ z_pc' = "done"
    /\ UNCHANGED << z_files, z_gdal_failed >>
    /\ ZoomVrtFrame

\* vrt.c:177-227: sort, hand the files to GDALBuildVRT, which builds the
\* mosaic or fails
BuildZoomVrtEntries ==
    /\ z_pc = "call"
    /\ CollectEntries(z_tileset, z_zoom, z_exists, 1) # << >>
    /\ z_files' \in SortedEntryArrays(CollectEntries(z_tileset, z_zoom, z_exists, 1))
    /\ z_gdal_failed' \in BOOLEAN
    /\ z_ret' = IF z_gdal_failed' THEN -1 ELSE 0
    /\ z_pc' = "done"
    /\ ZoomVrtFrame

ZoomVrtNext ==
    \/ BuildZoomVrtNoEntries
    \/ BuildZoomVrtEntries

ZoomVrtSpec == ZoomVrtInit /\ [][ZoomVrtNext]_vars

(***************************************************************************)
(* processing.c: expand_to_rgb and apply_mask as process_dataset calls     *)
(* them, for the geometry of the mask window.                              *)
(*                                                                         *)
(* A raster is its size, whether band 1 has a colour table, and its        *)
(* geotransform: set or not, and the six coefficients GDALGetGeoTransform  *)
(* reports (the default 0,1,0,0,0,1 when none is set).  The ring's         *)
(* vertices are whole pixels; the code truncates them with (int).  The     *)
(* GDAL calls of the two functions succeed here; their failures are in     *)
(* ProcessSpec.                                                            *)
(***************************************************************************)
DefaultGeoTransform == << 0, 1, 0, 0, 0, 1 >>

\* a north-up and a rotated geotransform
GeoTransformInputs == {<< 10, 2, 0, 20, 0, -2 >>, << 0, 1, 1, 5, -1, 1 >>}

SourceSizes == {2, 4}
VertexCoords == {-1, 1, 3, 5}
VertexInputs == [x : VertexCoords, y : VertexCoords]

\* the 2000 x 2000 source with the ring (100,100),(900,100),(900,900),(100,900)
ExampleRing == << [x |-> 100, y |-> 100], [x |-> 900, y |-> 100],
                  [x |-> 900, y |-> 900], [x |-> 100, y |-> 900] >>
ExampleSources ==
    [W : {2000}, H : {2000}, palette : BOOLEAN, gt_set : {TRUE},
     gt : {<< 10, 2, 0, 20, 0, -2 >>}]

SourceInputs ==
    [W : SourceSizes, H : SourceSizes, palette : BOOLEAN, gt_set : {TRUE},
     gt : GeoTransformInputs]
    \cup [W : SourceSizes, H : SourceSizes, palette : BOOLEAN, gt_set : {FALSE},
          gt : {DefaultGeoTransform}]

MinOf(S) == CHOOSE m \in S : \A n \in S : m <= n
MaxOf(S) == CHOOSE m \in S : \A n \in S : m >= n

\* processing.c:216-219 negated, with every window accepted
window_always_valid(width, height) == TRUE

\* processing.c:216-219 negated and 68-70 negated
window_is_valid(width, height) == ~ (width <= 0 \/ height <= 0)

\* processing.c:44-66 and 199-214: the ring's bounding box, moved by the
\* window offset and clamped to the raster
ClampedBox(ring, width, height, off) ==
    LET lo_x == MinOf({ring[i].x - off[1] : i \in DOMAIN ring})
        hi_x == MaxOf({ring[i].x - off[1] : i \in DOMAIN ring})
        lo_y == MinOf({ring[i].y - off[2] : i \in DOMAIN ring})
        hi_y == MaxOf({ring[i].y - off[2] : i \in DOMAIN ring})
        min_x == IF lo_x < 0 THEN 0 ELSE lo_x
        min_y == IF lo_y < 0 THEN 0 ELSE lo_y
        max_x == IF hi_x > width THEN width ELSE hi_x
        max_y == IF hi_y > height THEN height ELSE hi_y
    IN  [min_x |-> min_x, min_y |-> min_y,
         width |-> max_x - min_x, height |-> max_y - min_y]

\* processing.c:32-76
get_mask_bbox(ring, src_width, src_height) ==
    IF Len(ring) = 0
    THEN [has_bbox |-> FALSE, min_x |-> 0, min_y |-> 0, width |-> 0, height |-> 0]
    ELSE LET b == ClampedBox(ring, src_width, src_height, << 0, 0 >>)
         IN  IF window_is_valid(b.width, b.height)
             THEN [has_bbox |-> TRUE, min_x |-> b.min_x, min_y |-> b.min_y,
                   width |-> b.width, height |-> b.height]
             ELSE [has_bbox |-> FALSE, min_x |-> 0, min_y |-> 0,
                   width |-> 0, height |-> 0]

\* processing.c:149-157 and 313-323: the geotransform with its origin at
\* pixel (px, py)
ShiftedGeoTransform(gt, px, py) ==
    << gt[1] + px * gt[2] + py * gt[3], gt[2], gt[3],
       gt[4] + px * gt[5] + py * gt[6], gt[5], gt[6] >>

\* processing.c:405, with the window offset left out
window_offset_only(win, min) == min

\* processing.c:404-405
cumulative_offset(win, min) == win + min

\* processing.c:85-171: the new raster (or the old one for a no-op) and the
\* window offset
expand_to_rgb(src, ring) ==
    IF ~src.palette
    THEN [out |-> src, win |-> << 0, 0 >>]
    ELSE LET b == get_mask_bbox(ring, src.W, src.H)
         IN  IF b.has_bbox
             THEN [out |-> [W |-> b.width, H |-> b.height, palette |-> FALSE,
                            gt_set |-> src.gt_set,
                            gt |-> IF src.gt_set
                                   THEN ShiftedGeoTransform(src.gt, b.min_x, b.min_y)
                                   ELSE DefaultGeoTransform],
                   win |-> << b.min_x, b.min_y >>]
             ELSE [out |-> [src EXCEPT !.palette = FALSE], win |-> << 0, 0 >>]

\* processing.c:182-406: the return value, the new raster (or the old one
\* for a no-op) and the cumulative offset
apply_mask(src, ring, win) ==
    IF Len(ring) = 0
    THEN [ret |-> 0, out |-> src, off |-> win]
    ELSE LET b == ClampedBox(ring, src.W, src.H, win)
         IN  IF ~window_is_valid(b.width, b.height)
             THEN [ret |-> -1, out |-> src, off |-> win]
             ELSE [ret |-> 0,
                   out |-> [W |-> b.width, H |-> b.height, palette |-> FALSE,
                            gt_set |-> TRUE,
                            gt |-> IF src.gt_set
                                   THEN ShiftedGeoTransform(src.gt, b.min_x, b.min_y)
                                   ELSE DefaultGeoTransform],
                   off |-> << cumulative_offset(win[1], b.min_x),
                              cumulative_offset(win[2], b.min_y) >>]

MaskInit ==
    /\ \/ /\ k_src \in SourceInputs
          /\ k_ring \in UNION {[1 .. n -> VertexInputs] : n \in 0 .. MaxRingVertices}
       \/ /\ k_src \in ExampleSources
          /\ k_ring = ExampleRing
    /\ k_pc = "expand"
    /\ k_cur = k_src
    /\ k_win = << 0, 0 >>
    /\ k_off = << 0, 0 >>
    /\ k_ret = 0
    /\ k_saved = FALSE
    /\ JQIdle
    /\ ManifestIdle
    /\ TilesIdle
    /\ ProcessIdle
    /\ DatasetJobsIdle
    /\ ZoomVrtIdle
    /\ ForkIdle

MaskFrame ==
    UNCHANGED << k_src, k_ring, jqvars, mvars, tvars, pvars, dvars, zvars,
                 fvars >>

\* processing.c:998-1006
MaskExpandRGB ==
    /\ k_pc = "expand"
    /\ k_cur' = expand_to_rgb(k_cur, k_ring).out
    /\ k_win' = expand_to_rgb(k_cur, k_ring).win
    /\ k_pc' = "mask"
    /\ UNCHANGED << k_off, k_ret, k_saved >>
    /\ MaskFrame

\* processing.c:1008-1019
MaskApplyMask ==
    /\ k_pc = "mask"
    /\ LET r == apply_mask(k_cur, k_ring, k_win)
       IN  /\ k_cur' = r.out
           /\ k_off' = r.off
           /\ IF r.ret # 0
              THEN k_pc' = "returned" /\ k_ret' = -1
              ELSE k_pc' = "gcps" /\ k_ret' = k_ret
    /\ UNCHANGED << k_win, k_saved >>
    /\ MaskFrame

\* processing.c:1021-1064: the later stages; save_with_overviews writes the
\* GeoTIFF or one of them fails
MaskLaterStages ==
    /\ k_pc = "gcps"
    /\ k_saved' \in BOOLEAN
    /\ k_ret' = IF k_saved' THEN 0 ELSE -1
    /\ k_pc' = "returned"
    /\ UNCHANGED << k_cur, k_win, k_off >>
    /\ MaskFrame

MaskNext ==
    \/ MaskExpandRGB
    \/ MaskApplyMask
    \/ MaskLaterStages

MaskSpec == MaskInit /\ [][MaskNext]_vars

(***************************************************************************)
(* tiling.c:787-865 with the array pid_t pids[MAX_JOBS] of line 806: the   *)
(* fork loop of one tileset for a requested number of workers and a number *)
(* of tiles around MAX_JOBS.  What the workers do, and a failing fork(),   *)
(* are in TileSpec.  A store past the end of pids[] is undefined: the      *)
(* process is ended there, or it goes on with the stack overwritten.       *)
(***************************************************************************)
WorkerRequests == {1, MAX_JOBS, MAX_JOBS + 1}
TileCounts == {0, 1, MAX_JOBS, MAX_JOBS + 2}

ForkInit ==
    /\ f_req \in WorkerRequests
    /\ f_total \in TileCounts
    /\ f_pc = "limit"
    /\ f_actual = 0
    /\ f_w = 0
    /\ f_pids = {}
    /\ f_past = {}
    /\ JQIdle
    /\ ManifestIdle
    /\ TilesIdle
    /\ ProcessIdle
    /\ DatasetJobsIdle
    /\ ZoomVrtIdle
    /\ MaskIdle

ForkFrame == UNCHANGED << f_req, f_total, jqvars, mvars, tvars, pvars, dvars,
                         zvars, kvars >>

\* tiling.c:787-792: the workers are limited to the number of tiles
ForkLimit ==
    /\ f_pc = "limit"
    /\ IF f_total > 0
       THEN /\ f_actual' = ActualTileWorkers(f_req, f_total)
            /\ f_pc' = "fork"
       ELSE /\ f_actual' = f_actual
            /\ f_pc' = "wait"
    /\ UNCHANGED << f_w, f_pids, f_past >>
    /\ ForkFrame

\* tiling.c:808-809, 863-865: fork() and pids[w] = pid inside the array
ForkTileWorker ==
    /\ f_pc = "fork"
    /\ f_w < f_actual
    /\ f_w < MAX_JOBS
    /\ f_pids' = f_pids \cup {f_w}
    /\ f_w' = f_w + 1
    /\ UNCHANGED << f_pc, f_actual, f_past >>
    /\ ForkFrame

\* tiling.c:808-809, 863-865: fork() and pids[w] = pid with w >= MAX_JOBS
ForkTileWorkerPastArray ==
    /\ f_pc = "fork"
    /\ f_w < f_actual
    /\ f_w >= MAX_JOBS
    /\ f_past' = f_past \cup {f_w}
    /\ f_w' = f_w + 1
    /\ f_pc' \in {"fork", "crashed"}
    /\ UNCHANGED << f_actual, f_pids >>
    /\ ForkFrame

\* tiling.c:808: the loop over the workers ends
ForkLoopEnd ==
    /\ f_pc = "fork"
    /\ f_w >= f_actual
    /\ f_pc' = "wait"
    /\ UNCHANGED << f_actual, f_w, f_pids, f_past >>
    /\ ForkFrame

ForkNext ==
    \/ ForkLimit
    \/ ForkTileWorker
    \/ ForkTileWorkerPastArray
    \/ ForkLoopEnd

ForkSpec == ForkInit /\ [][ForkNext]_vars

Init == JQInit /\ ManifestIdle /\ TilesIdle /\ ProcIdle

Next ==
    \/ Parent
    \/ \E w \in WorkerIds : Worker(w)
    \/ \E w \in WorkerIds : WorkerDie(w)

Spec == Init /\ [][Next]_vars

\* the parent's steps other than the failures of pipe(), fork(), malloc()
\* and poll()
ParentProgress ==
    \/ Start
    \/ ForkWorker
    \/ AllocFds
    \/ InitialSend
    \/ LoopTop
    \/ Poll
    \/ ScanWorker
    \/ Shutdown
    \/ WaitWorker

\* The parent and every worker process keep running when they can: the
\* kernel schedules each process, worker_init and job_func return.
LiveSpec ==
    /\ Init
    /\ [][Next]_vars
    /\ WF_vars(ParentProgress)
    /\ \A w \in WorkerIds : WF_vars(Worker(w))

(***************************************************************************)
(* Claims                                                                  *)
(***************************************************************************)

\* C1: under every interleaving of completions, failed sends and worker
\* deaths, each job index is handed to a worker at most once and is
\* executed at most once.
C1_AtMostOnce ==
    \A j \in JobIds : sent[j] <= 1 /\ executed[j] <= 1

\* C1 witness: a worker died, a send failed or a worker was dropped, and
\* still every one of several jobs was executed.
C1_Witness ==
    /\ num_jobs >= 2
    /\ \E w \in WorkerIds : crashed[w] /\ ~workers[w].active
    /\ \A j \in 0 .. (num_jobs - 1) : executed[j] = 1

\* C2: when jobqueue_run returns after its dispatch loop, result.failed is
\* the number of jobs whose job_func returned non-zero plus the number of
\* jobs outstanding on a worker the parent declared dead (seen as a pipe
\* hang-up or as a failed status read), and result.completed is the number
\* of jobs whose job_func returned 0.  Stated for the runs in which poll()
\* never fails, so that every job a worker took was either reported or
\* lost with its worker before the counts were stored.
C2_ResultCounts ==
    (pc = "done" /\ loop_ran /\ ~poll_failed) =>
        /\ result.failed = returned_fail + Cardinality(lost)
        /\ result.completed = returned_ok

\* C3: jobqueue_run returns 0 only if all num_jobs jobs were executed and
\* each reported status 0; if every worker is dead before all jobs have
\* completed, the call returns -1.
C3_ZeroMeansAllSucceeded ==
    /\ (pc = "done" /\ ret = 0) =>
          /\ \A j \in 0 .. (num_jobs - 1) : executed[j] = 1
          /\ returned_ok = num_jobs
    /\ (pc = "done" /\ loop_ran /\ NoActiveWorkers /\ jobs_completed < num_jobs)
          => ret = -1

InDispatch == pc \in {"initial", "top", "poll", "scan"}

AllDispatched == next_job = num_jobs

AllWorkersCrashed == \A w \in 0 .. (num_workers - 1) : crashed[w]

C5_AllWorkersReaped ==
    (pc = "done" /\ started_workers >= 1) =>
        \A w \in WorkerIds :
            workers[w].pid > 0 =>
                reaped[w] /\ proc[w] = "exited" /\ ~parent_fds[w]

\* C5 witness: the call returned after one worker had died on its own and
\* another was shut down by the parent.
C5_Witness ==
    /\ pc = "done"
    /\ \E w \in WorkerIds : crashed[w] /\ reaped[w]
    /\ \E w \in WorkerIds : ~crashed[w] /\ reaped[w]

(***************************************************************************)
(* Claims about the manifest.                                              *)
(***************************************************************************)

\* the grid point (u, t) lies in tile (z, x, y); the tiles of the last column
\* and of the last row include the edge of the grid
PointInTile(u, t, z, x, y) ==
    LET n == 2 ^ z
        side == GridUnits \div n
        v == GridUnits - t
    IN  /\ \/ x * side <= u /\ u < (x + 1) * side
           \/ x = n - 1 /\ u = GridUnits
        /\ \/ y * side <= v /\ v < (y + 1) * side
           \/ y = n - 1 /\ v = GridUnits

\* the extent of dataset D, clamped to the grid, meets tile (z, x, y)
ExtentCoversTile(D, z, x, y) ==
    LET lo == IF D.lon_min < 0 THEN 0 ELSE D.lon_min
        hi == IF D.lon_max > GridUnits THEN GridUnits ELSE D.lon_max
        la == IF D.lat_min < 0 THEN 0 ELSE D.lat_min
        lb == IF D.lat_max > GridUnits THEN GridUnits ELSE D.lat_max
    IN  \E u \in lo .. hi, t \in la .. lb : PointInTile(u, t, z, x, y)

\* C7: after build_tile_manifest the manifest contains tile (z, x, y) if and
\* only if some dataset D of the tileset has
\* D.max_lod >= z >= tileset.zoom_min, z <= tileset.zoom_max, and D's
\* clamped extent covers the tile.
C7_ManifestIffCovered ==
    m_pc = "built" =>
        \A z \in 0 .. MaxZoom :
            \A x \in 0 .. (2 ^ z - 1), y \in 0 .. (2 ^ z - 1) :
                manifest_contains(manifest, z, x, y)
                <=> \E d \in DOMAIN tileset.datasets :
                        LET D == tileset.datasets[d]
                        IN  /\ D.tif
                            /\ D.max_lod >= z
                            /\ z >= tileset.zoom_min
                            /\ z <= tileset.zoom_max
                            /\ ExtentCoversTile(D, z, x, y)

\* the number a packed key stands for
KeyValue(t) == t[1] * (2 ^ PackShift) + t[2]

\* C8: after build_tile_manifest the packed keys of every zoom level are
\* strictly increasing: sorted ascending, without duplicates.
C8_StrictlyIncreasing ==
    m_pc = "built" =>
        \A i \in DOMAIN manifest.zooms :
            \A k \in 1 .. (Len(manifest.zooms[i]) - 1) :
                KeyValue(manifest.zooms[i][k]) < KeyValue(manifest.zooms[i][k + 1])

\* C8 witness: two overlapping datasets put the same tile into a level more
\* than once and out of order, and the level keeps several tiles.
C8_Witness ==
    /\ m_pc = "built"
    /\ \E i \in DOMAIN manifest.zooms :
          /\ Len(manifest.zooms[i]) >= 2
          /\ Len(raw_zooms[i]) > Len(manifest.zooms[i])
          /\ \E k \in 1 .. (Len(raw_zooms[i]) - 1) :
                KeyValue(raw_zooms[i][k]) > KeyValue(raw_zooms[i][k + 1])

(***************************************************************************)
(* Claims about the tile generator.                                        *)
(***************************************************************************)

\* C6: in Phase 1, under every interleaving of the workers' fetch-and-add,
\* no tile index is claimed by two workers (no index is claimed twice, no
\* two workers hold the same index), and no tile file is written twice by
\* the workers.
C6_NoTileClaimedTwice ==
    /\ \A i \in DOMAIN claimed : claimed[i] <= 1
    /\ \A v \in TileWorkerIds, w \in TileWorkerIds :
          (v # w /\ tw[v].i >= 0 /\ tw[w].i >= 0) => tw[v].i # tw[w].i
    /\ \A t \in DOMAIN writes :
          (t \in DOMAIN disk /\ disk[t].kind = "base") => WritesThisRun(t) <= 1

\* C6 witness: two workers are writing two tile files at the same time and
\* every tile index has been claimed.
C6_Witness ==
    /\ \E v \in TileWorkerIds, w \in TileWorkerIds :
          v # w /\ tw[v].pc = "write" /\ tw[w].pc = "write"
    /\ next_tile >= Len(tile_list)

\* C9: in Phase 1 a base tile at zoom z is read from a mosaic that holds
\* only datasets with max_lod >= z, and no dataset with max_lod < z
\* contributes pixels to a base tile at zoom z.
C9_BaseTileFromZoomMosaic ==
    /\ \A w \in TileWorkerIds :
          tw[w].pc \in {"stat", "write"} =>
              \A k \in DOMAIN vrt.sources :
                  tileset.datasets[vrt.sources[k]].max_lod
                      >= tile_list[tw[w].i + 1].z
    /\ \A t \in DOMAIN disk :
          disk[t].kind = "base" =>
              \A d \in disk[t].sources : tileset.datasets[d].max_lod >= t.z

\* C10: once a tile file exists, no later base-tile or overview-tile step
\* writes to its path.
C10_ExistingTileNotWritten ==
    [][\A t \in DOMAIN disk : TimesWritten(writes', t) = TimesWritten(writes, t)]_vars

\* C10 witness: Phase 2 came to a tile that Phase 1 had written and skipped
\* it, and generate_base_tile skipped a tile an earlier run had left.
C10_Witness ==
    /\ \E p \in skipped_existing :
          p[2] = "overview" /\ disk[p[1]].kind = "base"
    /\ \E p \in skipped_existing :
          p[2] = "base" /\ LeftByEarlierRun(disk[p[1]])

\* the zooms zoom_max - 1, zoom_max - 2, ... in the order of Phase 2
DescendingZooms(n) == [i \in 1 .. n |-> tileset.zoom_max - i]

\* C11: overview generation for a zoom starts only after every Phase-1
\* worker has exited and been waited for, and after the overview generation
\* of the zoom above it has finished; the zooms are started in the order
\* zoom_max - 1, zoom_max - 2, ..., never below zoom_min.
C11_OverviewAfterWorkersInOrder ==
    /\ ov_started = DescendingZooms(Len(ov_started))
    /\ ov_finished = DescendingZooms(Len(ov_finished))
    /\ Len(ov_started) - Len(ov_finished) \in {0, 1}
    /\ t_pc = "overview" <=> Len(ov_started) = Len(ov_finished) + 1
    /\ \A k \in DOMAIN ov_started : ov_started[k] >= tileset.zoom_min
    /\ ov_started # << >> =>
          \A w \in TileWorkerIds :
              \/ tw[w].pc = "none"
              \/ tw[w].pc \in Exited /\ waited[w]

\* C11 witness: two workers wrote base tiles and were waited for, and
\* Phase 2 is at its second zoom after finishing the first.
C11_Witness ==
    /\ t_pc = "overview"
    /\ Len(ov_started) = 2
    /\ Len(ov_finished) = 1
    /\ \E v \in TileWorkerIds, w \in TileWorkerIds : v # w /\ waited[v] /\ waited[w]
    /\ \E t \in DOMAIN disk : disk[t].kind = "base"

\* the tile workers that were forked
ForkedTileWorkers == {w \in TileWorkerIds : tw[w].pc # "none"}

\* C12: a Phase-1 worker that exits non-zero costs only its own work: while
\* another worker is still at work or has finished its share, the run is
\* not abandoned because of that exit.
C12_WorkerFailureIsolated ==
    (\E w \in TileWorkerIds : waited[w] /\ tw[w].pc = "exit1")
        => \/ t_pc # "failed"
           \/ \A v \in ForkedTileWorkers :
                 tw[v].pc \notin {"claim", "stat", "write", "exit0"}

\* C13: when generate_tileset_tiles_parallel has given up after forking
\* tile workers, every forked worker has exited and has been waited for.
C13_FailedRunReapsWorkers ==
    t_pc = "failed" =>
        \A w \in ForkedTileWorkers : tw[w].pc \in Exited /\ waited[w]

(***************************************************************************)
(* Claims about process_dataset.                                           *)
(***************************************************************************)

StageOrder == << "ExpandRGB", "ApplyMask", "ApplyGCP", "Warp", "Clip", "Save" >>

\* C14: process_dataset calls the stages in the order ExpandRGB, ApplyMask,
\* ApplyGCP, Warp, Clip, Save; once a step has failed no later stage is
\* called, nothing is saved and the function returns -1; it returns 0 only
\* after all six stages.
C14_StagesInOrderAbortOnFailure ==
    /\ Len(p_log) <= Len(StageOrder)
    /\ \A i \in DOMAIN p_log : p_log[i] = StageOrder[i]
    /\ p_failed # "none" =>
          /\ p_pc = "done"
          /\ p_ret = -1
          /\ ~p_saved
          /\ p_failed \in {"open", "CenterLatitude"}
                \/ p_log[Len(p_log)] = p_failed
    /\ (p_pc = "done" /\ p_failed = "none") =>
          p_ret = 0 /\ p_saved /\ p_log = StageOrder

\* C14 witness: a run with a mask whose Warp failed after ExpandRGB,
\* ApplyMask and ApplyGCP had been called.
C14_Witness ==
    /\ p_pc = "done"
    /\ p_failed = "Warp"
    /\ p_cfg.mask
    /\ p_log = << "ExpandRGB", "ApplyMask", "ApplyGCP", "Warp" >>

\* C15: on every path through process_dataset exactly one raster handle is
\* open between stages, it is the one the next stage is given, no handle is
\* closed twice or passed on after it was closed, and on return every handle
\* that was opened or produced has been closed exactly once.
C15_OneLiveHandleClosedOnce ==
    /\ ~p_stale_use
    /\ \A h \in DOMAIN p_handles.closes : p_handles.closes[h] <= 1
    /\ p_pc \in {"expand", "mask", "gcp", "lat", "warp", "clip", "save"} =>
          p_handles.live = {p_src}
    /\ p_pc = "done" =>
          /\ p_handles.live = {}
          /\ \A h \in DOMAIN p_handles.closes : p_handles.closes[h] = 1

\* C15 witness: a run that returned after no-op stages, stages with a fresh
\* handle and a stage that failed after creating a dataset of its own.
C15_Witness ==
    /\ p_pc = "done"
    /\ p_cfg.palette /\ ~p_cfg.mask /\ p_cfg.gcps
    /\ p_failed = "ApplyGCP"
    /\ Len(p_handles.closes) = 3

\* C16: no two jobs of the flat job list have the same temp file, and each
\* temp file is written by at most one job, also when a dataset name is
\* listed in several tilesets or twice in one.
C16_OneJobPerTempFile ==
    /\ \A i \in DOMAIN d_jobs, j \in DOMAIN d_jobs :
          i # j => d_jobs[i].temp_file # d_jobs[j].temp_file
    /\ \A f \in DOMAIN d_writers : Cardinality(d_writers[f]) <= 1

\* C17: the file list of build_zoom_vrt is in descending max_lod order, and
\* two different files of equal max_lod keep the order of their listings in
\* the tileset's dataset list.
C17_DescendingStableTies ==
    z_pc = "done" =>
        \A i \in DOMAIN z_files, j \in DOMAIN z_files :
            i < j =>
                \/ z_files[i].max_lod > z_files[j].max_lod
                \/ /\ z_files[i].max_lod = z_files[j].max_lod
                   /\ \/ z_files[i].tmp_file_path = z_files[j].tmp_file_path
                      \/ z_files[i].d < z_files[j].d

QualifyingDatasets ==
    {name \in KnownDatasets :
        /\ \E d \in DOMAIN z_tileset : z_tileset[d] = name
        /\ dataset_max_lod[name] >= z_zoom
        /\ name \in z_exists}

QualifyingListings ==
    {d \in DOMAIN z_tileset : z_tileset[d] \in QualifyingDatasets}

\* C18 as stated: a mosaic that was built holds exactly the datasets of the
\* tileset with max_lod >= z whose file exists, each once, and the call
\* returns -1 without a mosaic when no dataset qualifies.
C18_QualifyingDatasetsEachOnce ==
    z_pc = "done" =>
        /\ QualifyingDatasets = {} => z_ret = -1 /\ z_files = << >>
        /\ z_ret = 0 =>
              /\ {sorted_files[i] : i \in DOMAIN z_files} = QualifyingDatasets
              /\ \A i \in DOMAIN z_files, j \in DOMAIN z_files :
                    i # j => sorted_files[i] # sorted_files[j]

\* C18 amended: the file list handed to GDALBuildVRT has exactly one entry
\* for every listing of the tileset that names a dataset with max_lod >= z
\* whose file exists (a dataset listed twice is there twice); the call
\* returns 0 exactly when that list is not empty and GDALBuildVRT succeeded,
\* and -1 without a mosaic when no listing qualifies.
C18_OneEntryPerQualifyingListing ==
    z_pc = "done" =>
        /\ z_ret \in {0, -1}
        /\ {z_files[i].d : i \in DOMAIN z_files} = QualifyingListings
        /\ Len(z_files) = Cardinality(QualifyingListings)
        /\ \A i \in DOMAIN z_files : sorted_files[i] = z_tileset[z_files[i].d]
        /\ z_ret = 0 <=> QualifyingListings # {} /\ ~z_gdal_failed
        /\ QualifyingListings = {} => z_ret = -1 /\ ~z_gdal_failed

C18_Witness ==
    /\ z_pc = "done"
    /\ z_ret = 0
    /\ Len(z_tileset) = 3
    /\ Len(z_files) = 2
    /\ sorted_files[1] = sorted_files[2]
    /\ \E d \in DOMAIN z_tileset :
          /\ get_dataset(z_tileset[d])
          /\ dataset_max_lod[z_tileset[d]] >= z_zoom
          /\ z_tileset[d] \notin z_exists

ThreeDatasets ==
    /\ Len(z_tileset) = 3
    /\ {z_tileset[d] : d \in DOMAIN z_tileset} = {"A", "B", "C"}
    /\ {"A", "B", "C"} \subseteq z_exists
    /\ z_pc = "done"
    /\ ~z_gdal_failed

ListedMaxLods == [i \in DOMAIN z_files |-> z_files[i].max_lod]

\* C19 as stated: with datasets of max_lod 10, 8 and 6 the mosaic lists
\* [10, 8, 6] at z = 6, [10, 8] at z = 9 and [10] at z = 11.
C19_ExampleAsStated ==
    ThreeDatasets =>
        /\ z_zoom = 6 => z_ret = 0 /\ ListedMaxLods = << 10, 8, 6 >>
        /\ z_zoom = 9 => z_ret = 0 /\ ListedMaxLods = << 10, 8 >>
        /\ z_zoom = 11 => z_ret = 0 /\ ListedMaxLods = << 10 >>

\* C19 amended: with datasets of max_lod 10, 8 and 6 the mosaic lists
\* [10, 8, 6] at z = 6 and only [10] at z = 9; at z = 11 no dataset
\* qualifies, no mosaic is built and the call returns -1.
C19_ExampleByMaxLod ==
    ThreeDatasets =>
        /\ z_zoom = 6 => z_ret = 0 /\ ListedMaxLods = << 10, 8, 6 >>
        /\ z_zoom = 9 => z_ret = 0 /\ ListedMaxLods = << 10 >>
        /\ z_zoom = 11 => z_ret = -1 /\ z_files = << >>

C19_Witness ==
    /\ ThreeDatasets
    /\ z_tileset = << "C", "A", "B" >>
    /\ z_zoom = 9
    /\ ListedMaxLods = << 10 >>

\* a tileset of three zoom levels with one dataset, whose max_lod is the
\* top of the range ([2,4] and max_lod 4 in the example; the code depends on
\* the zoom only through the tile grid of 2^z columns)
ThreeLevelsOneDataset ==
    /\ tileset.zoom_min = tileset.zoom_max - 2
    /\ Len(tileset.datasets) = 1
    /\ tileset.datasets[1].tif
    /\ tileset.datasets[1].max_lod = tileset.zoom_max

\* C20: for a tileset with three zoom levels and one dataset whose max_lod
\* is the top level, Phase 1 is given and writes base tiles at the top
\* level only, and every tile below it is an overview made by Phase 2.
C20_BaseTilesAtMaxLodOnly ==
    ThreeLevelsOneDataset =>
        /\ \A i \in DOMAIN tile_list : tile_list[i].z = tileset.zoom_max
        /\ \A t \in DOMAIN disk :
              /\ disk[t].kind = "base" => t.z = tileset.zoom_max
              /\ disk[t].kind = "overview" => t.z < tileset.zoom_max

\* C21: when the second run over a tile directory from which some base
\* tiles of zoom_max were deleted has finished, the tile files are those of
\* the first run with the same content, the second run has written exactly
\* the deleted tiles, once each, and every other tile of the first run was
\* skipped as existing.
C21_RerunRecreatesDeleted ==
    first_run.done /\ t_pc = "done" /\ io_failures = 0 =>
        /\ DOMAIN disk = DOMAIN first_run.files
        /\ \A t \in DOMAIN disk :
              /\ disk[t] = first_run.files[t]
              /\ WritesThisRun(t) = IF t \in first_run.deleted THEN 1 ELSE 0
              /\ t \notin first_run.deleted /\ ~LeftByEarlierRun(disk[t]) =>
                    \E step \in {"base", "overview"} :
                        << t, step >> \in skipped_existing

C21_Witness ==
    /\ first_run.done
    /\ t_pc = "done"
    /\ io_failures = 0
    /\ tileset.zoom_min < tileset.zoom_max
    /\ first_run.deleted # {}
    /\ \E t \in DOMAIN first_run.files :
          /\ t.z = tileset.zoom_max
          /\ first_run.files[t].kind = "base"
          /\ t \notin first_run.deleted
    /\ \E t \in DOMAIN disk : disk[t].kind = "overview"

\* the mask's outer-ring bounding box clamped to the source raster
MaskBox == ClampedBox(k_ring, k_src.W, k_src.H, << 0, 0 >>)

MaskApplied == k_ring # << >> /\ k_pc \in {"gcps", "returned"} /\ k_ret = 0

SizeAndOffsetOfMaskBox ==
    /\ k_cur.W = MaskBox.width
    /\ k_cur.H = MaskBox.height
    /\ k_off = << MaskBox.min_x, MaskBox.min_y >>

OriginShiftedByOffset ==
    /\ k_cur.gt[1] = k_src.gt[1] + k_off[1] * k_src.gt[2] + k_off[2] * k_src.gt[3]
    /\ k_cur.gt[4] = k_src.gt[4] + k_off[1] * k_src.gt[5] + k_off[2] * k_src.gt[6]
    /\ \A i \in {2, 3, 5, 6} : k_cur.gt[i] = k_src.gt[i]

\* C22 as stated: after ExpandRGB and ApplyMask the raster has the size of
\* the clamped bounding box of the mask's outer ring, the cumulative offset
\* is the box's minimum corner, and the geotransform origin is the source's
\* origin shifted by the offset, for every source with a mask.
C22_WindowAndOriginEverySource ==
    MaskApplied => SizeAndOffsetOfMaskBox /\ OriginShiftedByOffset

\* C22 amended: size and cumulative offset are those of the clamped
\* bounding box for every source; the geotransform origin is the source's
\* origin shifted by the offset when the source has a geotransform, and a
\* source without one yields a raster with the default geotransform
\* (origin 0,0), not shifted.
C22_WindowAndOriginWithGeoTransform ==
    MaskApplied =>
        /\ SizeAndOffsetOfMaskBox
        /\ k_cur.gt_set
        /\ k_src.gt_set => OriginShiftedByOffset
        /\ ~k_src.gt_set => k_cur.gt[1] = 0 /\ k_cur.gt[4] = 0

C22_Witness ==
    /\ MaskApplied
    /\ k_src.palette
    /\ k_src.W = 2000
    /\ k_ring = ExampleRing
    /\ k_cur.W = 800
    /\ k_cur.H = 800
    /\ k_off = << 100, 100 >>
    /\ k_cur.gt[1] = 210
    /\ k_cur.gt[4] = -180

DegenerateMaskBox == k_ring # << >> /\ (MaskBox.width <= 0 \/ MaskBox.height <= 0)

\* C23: when the clamped bounding box of the mask's outer ring has
\* non-positive width or height, process_dataset fails in apply_mask and
\* returns -1, the later stages are not reached and nothing is saved, for
\* paletted and direct-colour sources.
C23_DegenerateMaskFails ==
    DegenerateMaskBox =>
        /\ k_pc \in {"expand", "mask", "returned"}
        /\ ~k_saved
        /\ k_pc = "returned" => k_ret = -1 /\ k_cur.W = k_src.W /\ k_cur.H = k_src.H

C23_Witness ==
    /\ DegenerateMaskBox
    /\ k_src.palette
    /\ k_pc = "returned"
    /\ k_ret = -1
    /\ \A i \in DOMAIN k_ring : k_ring[i].x > k_src.W

\* C24: in the Phase 2 loop over the parents of a zoom every call of
\* generate_overview_tile, a failed one included, is added to one of the
\* loop's counters, and a failure does not end the loop: the calls made and
\* the parents still to come are all the parents of the zoom.
C24_OverviewFailureCountedLoopGoesOn ==
    t_pc = "overview" =>
        /\ ov_counts.generated + ov_counts.skipped + ov_counts.existing
              = ov_calls.made
        /\ ov_calls.made + Cardinality(parents)
              = Cardinality(ParentTiles(disk, t_z))

\* the jobs worker w has been sent and the parent has no status for yet
Outstanding(w) ==
    Cardinality({i \in DOMAIN to_pipe[w] : to_pipe[w][i] >= 0})
        + (IF proc[w] = "busy" THEN 1 ELSE 0)
        + Len(from_pipe[w])

BusyWorkers == {w \in WorkerIds : proc[w] = "busy"}

AtMostOneOutstanding ==
    /\ \A w \in WorkerIds : Outstanding(w) <= 1
    /\ BusyWorkers \subseteq 0 .. (num_workers - 1)
    /\ num_workers <= num_jobs
    /\ num_workers <= JQ_MAX_WORKERS

C26_RunTerminates == <>(pc = "done")

\* C27: when Phase 2 has finished without a tile failure, every tile file
\* at a zoom above zoom_min has its parent tile file at the zoom below.
C27_ParentOfEveryTilePresent ==
    t_pc = "done" /\ io_failures = 0 =>
        \A t \in DOMAIN disk :
            tileset.zoom_min < t.z /\ t.z <= tileset.zoom_max =>
                [z |-> t.z - 1, x |-> t.x \div 2, y |-> t.y \div 2]
                    \in DOMAIN disk

\* C28: add_tiles_for_bounds returns for every bounds, and for bounds with
\* lon_min > lon_max it has then recursed one level, into [lon_min, 180]
\* and into [-180, lon_max], also when a longitude lies outside [-180, 180].
C28_ReturnsAfterOneLevelSplit ==
    /\ b_pc # "unbounded"
    /\ b_pc = "returned" /\ b_args.lon_min > b_args.lon_max =>
          b_calls = << << ClampBounds(b_args).lon_min, LonPlus180 >>,
                       << LonMinus180, ClampBounds(b_args).lon_max >> >>

\* vrt.c:153-169 on the datasets of a tileset of build_tile_manifest: the
\* listings build_zoom_vrt takes into the mosaic of a zoom
ZoomMosaic(ts, zoom) ==
    {d \in DOMAIN ts.datasets :
        /\ dataset_qualifies(ts.datasets[d].max_lod, zoom)
        /\ ts.datasets[d].tif}

\* the tiles the bounds of dataset D cover at a zoom (manifest.c:187-192)
CoveredTiles(D, zoom) ==
    LET tiles == add_tiles_for_bounds(D.lon_min, D.lat_min, D.lon_max,
                                      D.lat_max, zoom, MaxRecursion).tiles
    IN  {tiles[i] : i \in DOMAIN tiles}

\* C29: for every tile of the manifest, the zoom mosaic of the tile's zoom
\* holds a dataset whose bounds cover the tile.
C29_ManifestTileHasMosaicDataset ==
    m_pc = "built" =>
        \A z \in manifest.min_zoom .. manifest.max_zoom :
            \A i \in DOMAIN manifest.zooms[z - manifest.min_zoom] :
                \E d \in ZoomMosaic(tileset, z) :
                    manifest.zooms[z - manifest.min_zoom][i]
                        \in CoveredTiles(tileset.datasets[d], z)

\* C30: the workers forked for a tileset never outnumber MAX_JOBS, the
\* length of the pid array, whatever num_workers and the number of tiles.
C30_ForkedWithinPidArray ==
    /\ f_w <= MAX_JOBS
    /\ f_past = {}

=============================================================================
